---- MODULE Spec2Model ----
(***************************************************************************)
(* A model of the rclone-manager scripts: the per-remote-type flag store   *)
(* (the JSON store of codes/ and rclone/, the INI store of                 *)
(* rclone_scripts/), the resolution of stored flags into a serve command,  *)
(* and the interactive navigator of src/rclone_scripts/utils.py.           *)
(*                                                                         *)
(* These specifications share the module's variables:                     *)
(*   Spec     the JSON flag store and the scripts that read it             *)
(*   SpecIni  the config.ini flag store of rclone_scripts/core.py          *)
(*   SpecNav  the local and the remote navigator                           *)
(*   SpecCopy upload, download and sync, with the navigators they call     *)
(*   SpecServe the serve sessions: port planning, worker threads, Ctrl+C   *)
(*   SpecMenu the menu of rclone/main.py and the workflows it runs         *)
(* Each leaves the other components' variables unchanged.                  *)
(***************************************************************************)
EXTENDS Integers, Sequences, FiniteSets, TLC

VARIABLES
    \* ---- the JSON flag store (codes/, rclone/) ----
    family,     \* "codes" (data/config.json) or "rclone" (remote-commands-config.json)
    file,       \* the persisted document: [exists, toks]
    config,     \* the in-memory store of the running script: [loaded, flags]
    script,     \* the script that is running or ran last
    status,     \* "idle", "running", "exit0", "exit1", "crashed"
    msg,        \* what the last step reported to the user
    command,    \* the argument vector the last serve step built
    last,       \* the last operation and its inputs
    \* ---- the INI flag store (rclone_scripts/) ----
    iniFile,    \* config.ini: [exists, lines]
    iniConfig,  \* manage_config's ConfigParser, section rclone_flags
    environ,    \* os.environ entries RCLONE_FLAGS_<TYPE> set by setup_env
    iniStatus,  \* "idle", "started", "menu", "crashed"
    iniCommand, \* the command _serve_remote_thread built last, <<>> before
    iniLast,    \* the last operation and its inputs
    \* ---- the navigator (src/rclone_scripts/utils.py) ----
    navKind,    \* "local" or "remote"
    cursor,     \* current_dir (the names under "/") or current_path (a text)
    navState,   \* "Idle", "Browsing", "Done", "Crashed"
    selection,  \* the paths the navigator returned, <<>> while it has not
    navMsg,     \* what the last step printed
    navLast,    \* the last command and the listing it was issued on
    \* ---- upload, download and sync (rclone_scripts/core.py) ----
    flow,       \* the command that runs, its options and how far it is
    runs,       \* the rclone processes it started: [argv, stdin]
    \* ---- the serve sessions (core.py, run_webdav.py, codes/) ----
    program,    \* the entry point that runs, "none" before
    jobs,       \* the planned serve jobs: [remote, port, shared]
    threads,    \* one worker per job: "created", "started", "loading",
                \* "running" (its rclone runs), "finished"
    parent,     \* the main thread: [pc, i, first, interrupted, notice, exit],
                \* and tool, said, trace, typed about its start and prompts
    loads,      \* how often this process ran the body of load_config
    \* ---- the menu of rclone/main.py ----
    menu,       \* the process of main.py: [pc, exit, said]
    work        \* the workflow the menu ran last

storeVars == <<family, file, config, script, status, msg, command, last>>
iniVars == <<iniFile, iniConfig, environ, iniStatus, iniCommand, iniLast>>
navVars == <<navKind, cursor, navState, selection, navMsg, navLast>>
copyVars == <<flow, runs>>
serveVars == <<program, jobs, threads, parent, loads>>
menuVars == <<menu, work>>
vars == <<storeVars, iniVars, navVars, copyVars, serveVars, menuVars>>

\* what an action of one component leaves alone
notStoreVars == <<iniVars, navVars, copyVars, serveVars, menuVars>>
notIniVars == <<storeVars, navVars, copyVars, serveVars, menuVars>>
notNavVars == <<storeVars, iniVars, copyVars, serveVars, menuVars>>
notCopyVars == <<storeVars, iniVars, serveVars, menuVars>>
notServeVars == <<storeVars, iniVars, navVars, copyVars, menuVars>>
notMenuVars == <<storeVars, iniVars, navVars, copyVars, serveVars>>
\* what a serve program that loads data/config.json leaves alone
notCacheVars ==
    <<family, script, status, msg, command, last, iniVars, navVars, copyVars, menuVars>>

(***************************************************************************)
(* Bounds of the model.                                                    *)
(***************************************************************************)
\* the most flags the whole JSON store holds
MaxFlags == 2

(***************************************************************************)
(* Python's dict: an insertion-ordered mapping, here a sequence of         *)
(* <<key, value>> pairs with distinct keys.                                *)
(***************************************************************************)
Keys(d) == [i \in 1..Len(d) |-> d[i][1]]

Has(d, k) == \E i \in 1..Len(d) : d[i][1] = k

IndexOf(d, k) == CHOOSE i \in 1..Len(d) : d[i][1] = k

Get(d, k) == d[IndexOf(d, k)][2]

\* d[k] = v: an existing key keeps its position, a new key goes last
Put(d, k, v) ==
    IF Has(d, k) THEN [d EXCEPT ![IndexOf(d, k)] = <<k, v>>]
    ELSE Append(d, <<k, v>>)

\* del d[k]
Del(d, k) ==
    LET i == IndexOf(d, k)
    IN  SubSeq(d, 1, i - 1) \o SubSeq(d, i + 1, Len(d))

RECURSIVE Update(_, _)
\* d.update(e)
Update(d, e) ==
    IF e = <<>> THEN d
    ELSE Update(Put(d, e[1][1], e[1][2]), Tail(e))

(***************************************************************************)
(* json.dump / json.load.  A document is the sequence of JSON tokens of    *)
(* the text (white space, which indent=4 adds and the parser skips, is     *)
(* left out).  A token is <<kind, text>>.                                  *)
(***************************************************************************)
LB == <<"{", "">>
RB == <<"}", "">>
COLON == <<":", "">>
COMMA == <<",", "">>
Str(s) == <<"s", s>>

RECURSIVE DumpFlagPairs(_)
DumpFlagPairs(fs) ==
    IF fs = <<>> THEN <<>>
    ELSE <<Str(fs[1][1]), COLON, Str(fs[1][2])>>
         \o (IF Len(fs) > 1 THEN <<COMMA>> ELSE <<>>)
         \o DumpFlagPairs(Tail(fs))

\* the JSON text of one FlagSet, a dict of flag -> value
DumpFlagSet(fs) == <<LB>> \o DumpFlagPairs(fs) \o <<RB>>

RECURSIVE DumpStorePairs(_)
DumpStorePairs(st) ==
    IF st = <<>> THEN <<>>
    ELSE <<Str(st[1][1]), COLON>> \o DumpFlagSet(st[1][2])
         \o (IF Len(st) > 1 THEN <<COMMA>> ELSE <<>>)
         \o DumpStorePairs(Tail(st))

\* the JSON text of a dict of remote type -> FlagSet
DumpStore(st) == <<LB>> \o DumpStorePairs(st) \o <<RB>>

\* json.dump(config, f) of codes/: the store sits under the key "flags"
DumpCodes(st) == <<LB, Str("flags"), COLON>> \o DumpStore(st) \o <<RB>>

\* json.dump(configs, f) of rclone/: the store is the document
DumpRclone(st) == DumpStore(st)

Dump(fam, st) == IF fam = "codes" THEN DumpCodes(st) ELSE DumpRclone(st)

\* a parse result: ok, the value, the index of the next unread token
Bad == [ok |-> FALSE, val |-> <<>>, next |-> 0]

IsTok(toks, i, t) == i <= Len(toks) /\ toks[i] = t
IsStr(toks, i) == i <= Len(toks) /\ toks[i][1] = "s"

\* the one element of a singleton set; {e(x) : x \in {v}} names v once
Only(S) == CHOOSE x \in S : TRUE

RECURSIVE ParseFlagPairs(_, _, _)
\* key ":" string, then "," and more, or "}"; a repeated key keeps its
\* place and takes the later value, as the dict json.load builds does
ParseFlagPairs(toks, i, acc) ==
    IF ~(IsStr(toks, i) /\ IsTok(toks, i + 1, COLON) /\ IsStr(toks, i + 2))
    THEN Bad
    ELSE Only({IF IsTok(toks, i + 3, RB)
               THEN [ok |-> TRUE, val |-> acc2, next |-> i + 4]
               ELSE IF IsTok(toks, i + 3, COMMA)
                    THEN ParseFlagPairs(toks, i + 4, acc2)
                    ELSE Bad
               : acc2 \in {Put(acc, toks[i][2], toks[i + 2][2])}})

ParseFlagSet(toks, i) ==
    IF ~IsTok(toks, i, LB) THEN Bad
    ELSE IF IsTok(toks, i + 1, RB)
         THEN [ok |-> TRUE, val |-> <<>>, next |-> i + 2]
         ELSE ParseFlagPairs(toks, i + 1, <<>>)

RECURSIVE ParseStorePairs(_, _, _)
ParseStorePairs(toks, i, acc) ==
    IF ~(IsStr(toks, i) /\ IsTok(toks, i + 1, COLON)) THEN Bad
    ELSE Only({IF ~fs.ok THEN Bad
               ELSE Only({IF IsTok(toks, fs.next, RB)
                          THEN [ok |-> TRUE, val |-> acc2, next |-> fs.next + 1]
                          ELSE IF IsTok(toks, fs.next, COMMA)
                               THEN ParseStorePairs(toks, fs.next + 1, acc2)
                               ELSE Bad
                          : acc2 \in {Put(acc, toks[i][2], fs.val)}})
               : fs \in {ParseFlagSet(toks, i + 2)}})

ParseStore(toks, i) ==
    IF ~IsTok(toks, i, LB) THEN Bad
    ELSE IF IsTok(toks, i + 1, RB)
         THEN [ok |-> TRUE, val |-> <<>>, next |-> i + 2]
         ELSE ParseStorePairs(toks, i + 1, <<>>)

\* json.load of codes/: {"flags": store}, nothing after it
LoadCodes(toks) ==
    IF ~(IsTok(toks, 1, LB) /\ IsTok(toks, 2, Str("flags")) /\ IsTok(toks, 3, COLON))
    THEN Bad
    ELSE Only({IF st.ok /\ IsTok(toks, st.next, RB) /\ st.next = Len(toks)
               THEN [ok |-> TRUE, val |-> st.val, next |-> st.next + 1]
               ELSE Bad
               : st \in {ParseStore(toks, 4)}})

\* json.load of rclone/: the store, nothing after it
LoadRclone(toks) ==
    Only({IF st.ok /\ st.next = Len(toks) + 1 THEN st ELSE Bad
          : st \in {ParseStore(toks, 1)}})

JsonLoad(fam, toks) == IF fam = "codes" THEN LoadCodes(toks) ELSE LoadRclone(toks)

(***************************************************************************)
(* The JSON flag store: its constants and the inputs a user can type.      *)
(***************************************************************************)
\* DEFAULT_CONFIG["flags"] of codes/config.py
DEFAULT_CONFIG == <<<<"drive", <<>>>>, <<"mega", <<>>>>, <<"google photos", <<>>>>>>

\* the document rclone/ is installed with (rclone/ never creates one)
SeedStore ==
    <<<<"drive", <<<<"--drive-shared-with-me", "">>>>>>,
      <<"mega", <<<<"--vfs-cache-mode", "writes">>>>>>>>

\* what the user types as a flag and as its value
FlagNames == {"--vfs-cache-mode", "--drive-shared-with-me"}
FlagValues == {"", "writes"}
\* what the user types at "Enter the name of the new remote type"
TypeInputs == {"", "mega"}
\* the types of the remotes rclone itself has configured
RcloneTypes == {"drive", "mega"}
\* what get_remote_type returns: a type, or "none" when it found none
RemoteTypes == RcloneTypes \cup {"none"}

NoFile == [exists |-> FALSE, toks |-> <<>>]
Doc(toks) == [exists |-> TRUE, toks |-> toks]
NoConfig == [loaded |-> FALSE, flags |-> <<>>]
Loaded(st) == [loaded |-> TRUE, flags |-> st]
NoCommand == <<>>

RECURSIVE CountFlags(_)
CountFlags(st) == IF st = <<>> THEN 0 ELSE Len(st[1][2]) + CountFlags(Tail(st))

\* the outcome of open(CONFIG_FILE, "w") and the write that follows
IoOutcomes == {"ok", "open_fails", "write_fails"}

\* the file after open(path, "w") and json.dump: replaced, untouched when the
\* open fails, cut short when the write fails after the open truncated it
WriteFile(old, toks, io) ==
    CASE io = "ok" -> Doc(toks)
      [] io = "open_fails" -> old
      [] OTHER -> Doc(SubSeq(toks, 1, Len(toks) \div 2))

\* how a load of the document f goes: "absent", "corrupt" or "ok"
LoadKind(fam, f) ==
    IF ~f.exists THEN "absent"
    ELSE IF JsonLoad(fam, f.toks).ok THEN "ok" ELSE "corrupt"

\* the last step: the operation, the outcome of its write ("none" when it
\* wrote nothing) and of its load ("none" when it loaded nothing)
Op(op, io, load) == [op |-> op, io |-> io, load |-> load]

NoOp == Op("none", "none", "none")

(***************************************************************************)
(* codes/manage_config.py: the configuration menu over data/config.json.   *)
(***************************************************************************)
\* load_config writing the default document whatever it finds
load_config_reset(f) ==
    [ok |-> TRUE, store |-> DEFAULT_CONFIG, file |-> Doc(DumpCodes(DEFAULT_CONFIG))]

\* load_config(): [ok, store, file after]; a missing file is created with
\* the default, a file json.load rejects raises JSONDecodeError
load_config(f) ==
    IF ~f.exists
    THEN [ok |-> TRUE, store |-> DEFAULT_CONFIG,
          file |-> Doc(DumpCodes(DEFAULT_CONFIG))]
    ELSE Only({[ok |-> r.ok, store |-> r.val, file |-> f] : r \in {LoadCodes(f.toks)}})

\* save_config opening the file with "a" instead of "w"
save_config_append(f, st, io) == WriteFile(f, f.toks \o DumpCodes(st), io)

\* save_config(config): the file it leaves
save_config(f, st, io) == WriteFile(f, DumpCodes(st), io)

\* an action of the menu that ends in save_config(config): an OSError of the
\* write is caught nowhere and ends main() with a traceback
McSave(st, op, rt) ==
    \E io \in IoOutcomes :
        /\ file' = save_config(file, st, io)
        /\ config' = IF io = "ok" THEN Loaded(st) ELSE NoConfig
        /\ status' = IF io = "ok" THEN "running" ELSE "crashed"
        /\ msg' = IF io = "ok" THEN "Configuration saved successfully!"
                  ELSE "Traceback"
        /\ last' = Op(op, io, "none")

\* an action of the menu that returns before it changed anything
McReturn(text, op) ==
    /\ msg' = text
    /\ last' = Op(op, "none", "none")
    /\ UNCHANGED <<file, config, status>>

InMenu == family = "codes" /\ script = "manage_config" /\ status = "running"

\* python manage_config.py: main() loads the configuration once
McMain ==
    /\ family = "codes"
    /\ status # "running"
    /\ \E r \in {load_config(file)} :
           /\ file' = r.file
           /\ config' = IF r.ok THEN Loaded(r.store) ELSE NoConfig
           /\ status' = IF r.ok THEN "running" ELSE "crashed"
           /\ msg' = IF ~r.ok THEN "Traceback"
                     ELSE IF ~file.exists
                          THEN "Config file not found. Creating a default one."
                          ELSE ""
    /\ script' = "manage_config"
    /\ last' = Op("load", "none", LoadKind("codes", file))
    /\ command' = NoCommand
    /\ UNCHANGED family
    /\ UNCHANGED notStoreVars

add_remote_type ==
    /\ InMenu
    /\ \E name \in TypeInputs :
        IF name = "" THEN McReturn("Invalid remote type name.", "add_remote_type")
        ELSE IF Has(config.flags, name)
             THEN McReturn("Remote type already exists.", "add_remote_type")
             ELSE McSave(Put(config.flags, name, <<>>), "add_remote_type", name)
    /\ UNCHANGED <<family, script, command>>
    /\ UNCHANGED notStoreVars

delete_remote_type ==
    /\ InMenu
    /\ IF config.flags = <<>>
       THEN McReturn("No remote types available to delete.", "delete_remote_type")
       ELSE \E i \in 1..Len(config.flags) :
                LET rt == config.flags[i][1]
                IN  McSave(Del(config.flags, rt), "delete_remote_type", rt)
    /\ UNCHANGED <<family, script, command>>
    /\ UNCHANGED notStoreVars

add_flag ==
    /\ InMenu
    /\ IF config.flags = <<>>
       THEN McReturn("No remote types available to add flags to.", "add_flag")
       ELSE \E i \in 1..Len(config.flags), flag \in FlagNames \cup {""},
               value \in FlagValues :
                LET rt == config.flags[i][1]
                    st == Put(config.flags, rt, Put(config.flags[i][2], flag, value))
                IN  IF flag = "" THEN McReturn("Invalid flag.", "add_flag")
                    ELSE /\ CountFlags(st) <= MaxFlags
                         /\ McSave(st, "add_flag", rt)
    /\ UNCHANGED <<family, script, command>>
    /\ UNCHANGED notStoreVars

edit_flag ==
    /\ InMenu
    /\ IF config.flags = <<>>
       THEN McReturn("No remote types available to edit flags for.", "edit_flag")
       ELSE \E i \in 1..Len(config.flags) :
                LET rt == config.flags[i][1]
                    fs == config.flags[i][2]
                IN  IF fs = <<>>
                    THEN McReturn("No flags available for remote type.", "edit_flag")
                    ELSE \E j \in 1..Len(fs), new_value \in FlagValues :
                            McSave(Put(config.flags, rt, Put(fs, fs[j][1], new_value)),
                                   "edit_flag", rt)
    /\ UNCHANGED <<family, script, command>>
    /\ UNCHANGED notStoreVars

delete_flag ==
    /\ InMenu
    /\ IF config.flags = <<>>
       THEN McReturn("No remote types available to delete flags from.", "delete_flag")
       ELSE \E i \in 1..Len(config.flags) :
                LET rt == config.flags[i][1]
                    fs == config.flags[i][2]
                IN  IF fs = <<>>
                    THEN McReturn("No flags available for remote type.", "delete_flag")
                    ELSE \E j \in 1..Len(fs) :
                            McSave(Put(config.flags, rt, Del(fs, fs[j][1])),
                                   "delete_flag", rt)
    /\ UNCHANGED <<family, script, command>>
    /\ UNCHANGED notStoreVars

\* choice 7: the menu loop ends and the process with it
McExit ==
    /\ InMenu
    /\ status' = "exit0"
    /\ config' = NoConfig
    /\ msg' = "Exiting..."
    /\ last' = Op("exit", "none", "none")
    /\ UNCHANGED <<family, file, script, command>>
    /\ UNCHANGED notStoreVars

(***************************************************************************)
(* codes/serve_remote.py (and codes/rclone_serve.py, which has the same    *)
(* load_config and get_flags): resolving the stored flags for a command.   *)
(***************************************************************************)
DEFAULT_PORT == 8080
BACKENDS == {"FTP", "WebDAV"}
\* the backend the user picks
BackendInputs == {"WebDAV"}

\* str.lower() on the backends
Lower(b) == IF b = "FTP" THEN "ftp" ELSE "webdav"

\* f"{host}:{port}"
Addr(host, port) ==
    CASE port = DEFAULT_PORT -> host \o ":8080"
      [] port = DEFAULT_PORT + 1 -> host \o ":8081"
      [] OTHER -> host \o ":?"

RECURSIVE FlagItemsAlwaysValue(_, _, _)
\* FlagItems without the test "if value:": an empty value is appended too
FlagItemsAlwaysValue(fs, rt, shared) ==
    IF fs = <<>> THEN <<>>
    ELSE (IF rt = "drive" /\ ~shared THEN <<>> ELSE <<fs[1][1], fs[1][2]>>)
         \o FlagItemsAlwaysValue(Tail(fs), rt, shared)

RECURSIVE FlagItems(_, _, _)
\* the loop over flag_configs.items(): nothing for a drive that is not
\* shared, else the key and, when it is truthy, the value
FlagItems(fs, rt, shared) ==
    IF fs = <<>> THEN <<>>
    ELSE (IF rt = "drive" /\ ~shared THEN <<>>
          ELSE IF fs[1][2] # "" THEN <<fs[1][1], fs[1][2]>>
               ELSE <<fs[1][1]>>)
         \o FlagItems(Tail(fs), rt, shared)

\* get_flags(remote_type, shared) on the loaded config
get_flags(st, rt, shared) ==
    IF ~Has(st, rt) THEN <<>> ELSE FlagItems(Get(st, rt), rt, shared)

\* the command list of serve_remote
ServeCommand(backend, remote_name, port, flags) ==
    <<"rclone", "serve", Lower(backend), remote_name, "--addr", Addr("ip", port),
      "--user", "USERNAME", "--pass", "PASSWORD">> \o flags

\* one call serve_remote(remote, backend, port, shared) up to subprocess.run:
\* get_remote_type gave rt; get_flags loads the config unless it is cached
ServeCall(rt, shared, port, backend, cache, f) ==
    LET name == IF shared THEN "remote-shared:" ELSE "remote:"
    IN  IF rt = "none"
        THEN [ok |-> TRUE, cache |-> cache, file |-> f,
              built |-> <<[rt |-> rt, shared |-> shared, flags |-> <<>>,
                           argv |-> ServeCommand(backend, name, port, <<>>)]>>]
        ELSE Only({IF ~ld.ok
                   THEN [ok |-> FALSE, cache |-> NoConfig, file |-> f, built |-> <<>>]
                   ELSE [ok |-> TRUE, cache |-> Loaded(ld.store), file |-> ld.file,
                         built |-> <<[rt |-> rt, shared |-> shared,
                                      flags |-> get_flags(ld.store, rt, shared),
                                      argv |-> ServeCommand(backend, name, port,
                                                 get_flags(ld.store, rt, shared))]>>]
                   : ld \in {IF cache.loaded
                             THEN [ok |-> TRUE, store |-> cache.flags, file |-> f]
                             ELSE load_config(f)}})

\* python serve_remote.py: one serve_remote call, or for a drive remote two
\* (the personal one, then the shared one on the next port)
SrMain ==
    /\ family = "codes"
    /\ status # "running"
    /\ \E rt \in RemoteTypes, sharedType \in {"drive", "none"}, backend \in BackendInputs,
          rc \in {0, 1} :
        \E c1 \in {ServeCall(rt, FALSE, DEFAULT_PORT, backend, NoConfig, file)} :
        \E c2 \in {ServeCall(sharedType, TRUE, DEFAULT_PORT + 1, backend, c1.cache,
                             c1.file)} :
        LET two == rt = "drive"
            ok == c1.ok /\ (two => c2.ok)
        IN  /\ file' = IF two THEN c2.file ELSE c1.file
            /\ config' = IF two THEN c2.cache ELSE c1.cache
            /\ command' = IF two THEN c1.built \o c2.built ELSE c1.built
            \* a JSONDecodeError ends the main thread, or only the worker threads
            /\ status' = IF ok \/ two THEN "exit0" ELSE "crashed"
            /\ msg' = IF ~ok THEN "Traceback"
                      ELSE IF rc # 0 THEN "Error running rclone serve" ELSE ""
            /\ last' = Op("serve", "none",
                          IF rt # "none" \/ (two /\ sharedType # "none")
                          THEN LoadKind("codes", file) ELSE "none")
    /\ script' = "serve_remote"
    /\ UNCHANGED family
    /\ UNCHANGED notStoreVars

(***************************************************************************)
(* rclone/run_webdav.py: get_command over remote-commands-config.json.     *)
(***************************************************************************)
\* load_configuration() of run_webdav.py: "ok", "exit" (JSONDecodeError is
\* logged and the process exits 1) or "raise" (FileNotFoundError is caught
\* nowhere)
RwLoad(f) ==
    IF ~f.exists THEN [how |-> "raise", store |-> <<>>]
    ELSE Only({[how |-> IF r.ok THEN "ok" ELSE "exit", store |-> r.val]
               : r \in {LoadRclone(f.toks)}})

\* add_authentication(command, username, password)
add_authentication(cmd, username, password) ==
    cmd \o <<"--user", username, "--pass", password>>

\* get_command(remote, remote_type, shared, add_auth, port) once the
\* configuration is loaded and has settings for remote_type
get_command(st, remote, rt, shared, add_auth) ==
    LET port == IF shared THEN DEFAULT_PORT + 1 ELSE DEFAULT_PORT
        base_command == <<"rclone", "serve", "webdav", remote, "--addr",
                          Addr("localhost", port)>>
                        \o FlagItems(Get(st, rt), rt, shared)
    IN  IF add_auth THEN add_authentication(base_command, "Admin", "47153N")
        ELSE base_command

\* python run_webdav.py: main()
RwMain ==
    /\ family = "rclone"
    /\ status # "running"
    /\ \E rt \in RcloneTypes, authenticate \in BOOLEAN, serveShared \in BOOLEAN,
          sharedExists \in BOOLEAN, rc \in {0, 1} :
        \E ld \in {RwLoad(file)} :
        LET two == rt = "drive" /\ serveShared
            personal == [rt |-> rt, shared |-> FALSE,
                         flags |-> FlagItems(Get(ld.store, rt), rt, FALSE),
                         argv |-> get_command(ld.store, "remote:", rt, FALSE, authenticate)]
            shared == [rt |-> rt, shared |-> TRUE,
                       flags |-> FlagItems(Get(ld.store, rt), rt, TRUE),
                       argv |-> get_command(ld.store, "remote-shared:", rt, TRUE,
                                            authenticate)]
        IN  /\ last' = Op("serve", "none",
                          IF two /\ ~sharedExists THEN "none"
                          ELSE LoadKind("rclone", file))
            /\ IF two /\ ~sharedExists
               THEN \* serve_gdrive raises ValueError, main logs it and exits
                    /\ command' = NoCommand
                    /\ config' = NoConfig
                    /\ status' = "exit1"
                    /\ msg' = "No shared-remote configured"
               ELSE IF ld.how # "ok"
               THEN /\ command' = NoCommand
                    /\ config' = NoConfig
                    /\ status' = IF ld.how = "exit" THEN "exit1" ELSE "crashed"
                    /\ msg' = IF ld.how = "exit"
                              THEN "Failed to load remote-flag-Configuration file."
                              ELSE "Traceback"
               ELSE IF ~Has(ld.store, rt)
               THEN /\ command' = NoCommand
                    /\ config' = Loaded(ld.store)
                    /\ status' = "exit1"
                    /\ msg' = "Unsupported remote type"
               ELSE /\ command' = IF two THEN <<personal, shared>> ELSE <<personal>>
                    /\ config' = Loaded(ld.store)
                    \* run(): a failed rclone exits the process, or, in
                    \* serve_gdrive, only the thread it ran in
                    /\ status' = IF rc # 0 /\ ~two THEN "exit1" ELSE "exit0"
                    /\ msg' = IF rc # 0 THEN "CalledProcessError" ELSE ""
    /\ script' = "run_webdav"
    /\ UNCHANGED <<family, file>>
    /\ UNCHANGED notStoreVars

(***************************************************************************)
(* rclone/manage_webdav_config.py: every action loads the document afresh. *)
(***************************************************************************)
\* load_configuration(): a missing or malformed file is logged and the
\* process exits 1
load_configuration(f) ==
    IF ~f.exists THEN [ok |-> FALSE, store |-> <<>>]
    ELSE Only({[ok |-> r.ok, store |-> r.val] : r \in {LoadRclone(f.toks)}})

\* save_configuration(configs): the file it leaves
save_configuration(f, st, io) == WriteFile(f, DumpRclone(st), io)

\* what get_configuration can return: the flags typed until "Done?"
Configurations ==
    {<<<<f, v>>>> : f \in FlagNames, v \in FlagValues}
    \cup {<<<<"--vfs-cache-mode", "writes">>, <<"--vfs-cache-max-size", "100M">>>>}

InWebdavMenu == family = "rclone" /\ script = "manage_webdav" /\ status = "running"

\* python manage_webdav_config.py: manage_configurations() shows the menu
manage_configurations ==
    /\ family = "rclone"
    /\ status # "running"
    /\ script' = "manage_webdav"
    /\ status' = "running"
    /\ config' = NoConfig
    /\ msg' = ""
    /\ last' = Op("menu", "none", "none")
    /\ command' = NoCommand
    /\ UNCHANGED <<family, file>>
    /\ UNCHANGED notStoreVars

\* load_configuration failed inside an action
MwLoadFailed(op) ==
    /\ status' = "exit1"
    /\ config' = NoConfig
    /\ msg' = "Failed to load configuration file"
    /\ last' = Op(op, "none", LoadKind("rclone", file))
    /\ UNCHANGED file

\* configs is saved: an error of the write is logged and the process exits 1
MwSave(st, op, rt) ==
    \E io \in IoOutcomes :
        /\ file' = save_configuration(file, st, io)
        /\ config' = IF io = "ok" THEN Loaded(st) ELSE NoConfig
        /\ status' = IF io = "ok" THEN "running" ELSE "exit1"
        /\ msg' = IF io = "ok" THEN "Configuration saved successfully."
                  ELSE "Failed to save configuration"
        /\ last' = Op(op, io, "ok")

\* the action ends without a save ("Save Configuration?" answered n)
MwDeclined(st, op, rt) ==
    /\ config' = Loaded(st)
    /\ msg' = ""
    /\ last' = Op(op, "declined", "ok")
    /\ UNCHANGED <<file, status>>

display_configuration ==
    /\ InWebdavMenu
    /\ \E ld \in {load_configuration(file)} :
           IF ~ld.ok THEN MwLoadFailed("display_configuration")
           ELSE /\ config' = Loaded(ld.store)
                /\ msg' = "Current remote type flag configurations:"
                /\ last' = Op("display_configuration", "none", "ok")
                /\ UNCHANGED <<file, status>>
    /\ UNCHANGED <<family, script, command>>
    /\ UNCHANGED notStoreVars

add_configuration ==
    /\ InWebdavMenu
    /\ \E ld \in {load_configuration(file)} :
           IF ~ld.ok THEN MwLoadFailed("add_configuration")
           ELSE \E rt \in RcloneTypes, conf \in Configurations, edit \in BOOLEAN,
                   save \in BOOLEAN :
                    IF Has(ld.store, rt) /\ edit
                    THEN \* edit_configuration(remote_type)
                         LET st == Put(ld.store, rt, Update(Get(ld.store, rt), conf))
                         IN  /\ CountFlags(st) <= MaxFlags
                             /\ IF save THEN MwSave(st, "edit_configuration", rt)
                                ELSE MwDeclined(st, "edit_configuration", rt)
                    ELSE \* "Save Configuration?" answered n asks again
                         LET st == Put(ld.store, rt, conf)
                         IN  /\ save
                             /\ CountFlags(st) <= MaxFlags
                             /\ MwSave(st, "add_configuration", rt)
    /\ UNCHANGED <<family, script, command>>
    /\ UNCHANGED notStoreVars

edit_configuration ==
    /\ InWebdavMenu
    /\ \E ld \in {load_configuration(file)} :
           IF ~ld.ok THEN MwLoadFailed("edit_configuration")
           ELSE \E i \in 1..Len(ld.store), conf \in Configurations, save \in BOOLEAN :
                    LET rt == ld.store[i][1]
                        st == Put(ld.store, rt, Update(ld.store[i][2], conf))
                    IN  /\ CountFlags(st) <= MaxFlags
                        /\ IF save THEN MwSave(st, "edit_configuration", rt)
                           ELSE MwDeclined(st, "edit_configuration", rt)
    /\ UNCHANGED <<family, script, command>>
    /\ UNCHANGED notStoreVars

delete_configuration ==
    /\ InWebdavMenu
    /\ \E ld \in {load_configuration(file)} :
           IF ~ld.ok THEN MwLoadFailed("delete_configuration")
           ELSE \E i \in 1..Len(ld.store), confirmed \in BOOLEAN :
                    LET rt == ld.store[i][1]
                    IN  IF confirmed
                        THEN MwSave(Del(ld.store, rt), "delete_configuration", rt)
                        ELSE MwDeclined(ld.store, "delete_configuration", rt)
    /\ UNCHANGED <<family, script, command>>
    /\ UNCHANGED notStoreVars

\* "Back to Main Menu": manage_configurations returns
MwBack ==
    /\ InWebdavMenu
    /\ status' = "exit0"
    /\ config' = NoConfig
    /\ msg' = ""
    /\ last' = Op("exit", "none", "none")
    /\ UNCHANGED <<family, file, script, command>>
    /\ UNCHANGED notStoreVars

(***************************************************************************)
(* rclone_scripts: the flag store kept in config.ini.  A text is a         *)
(* sequence of pieces ("--drive", "-shared-with-me", "=", NL, ...), so     *)
(* that a prefix, a split and a join are computed on the text itself.      *)
(***************************************************************************)
MaxLines == 2

NL == "\n"
TAB == "\t"
SP == " "
EQ == "="

StartsWith(s, prefix) ==
    Len(prefix) <= Len(s) /\ SubSeq(s, 1, Len(prefix)) = prefix

\* s.split(sep)[0]
BeforeFirst(s, sep) ==
    IF \E i \in 1..Len(s) : s[i] = sep
    THEN SubSeq(s, 1, (CHOOSE i \in 1..Len(s) :
                          s[i] = sep /\ \A j \in 1..(i - 1) : s[j] # sep) - 1)
    ELSE s

RECURSIVE SplitOn(_, _)
\* s.split(sep): "" gives [""]
SplitOn(s, sep) ==
    IF \E i \in 1..Len(s) : s[i] = sep
    THEN <<BeforeFirst(s, sep)>>
         \o SplitOn(SubSeq(s, Len(BeforeFirst(s, sep)) + 2, Len(s)), sep)
    ELSE <<s>>

\* s.splitlines(): "" gives [], and a final newline opens no last line
SplitLines(s) ==
    IF s = <<>> THEN <<>>
    ELSE IF s[Len(s)] = NL THEN SplitOn(SubSeq(s, 1, Len(s) - 1), NL)
    ELSE SplitOn(s, NL)

RECURSIVE Join(_, _)
\* sep.join(parts)
Join(sep, parts) ==
    IF parts = <<>> THEN <<>>
    ELSE IF Len(parts) = 1 THEN parts[1]
    ELSE parts[1] \o <<sep>> \o Join(sep, Tail(parts))

RECURSIVE Split(_)
\* s.split(): the runs between white space, none of them empty
Split(s) ==
    IF s = <<>> THEN <<>>
    ELSE IF s[1] \in {NL, SP, TAB} THEN Split(Tail(s))
    ELSE IF \E i \in 1..Len(s) : s[i] \in {NL, SP, TAB}
    THEN LET i == CHOOSE i \in 1..Len(s) :
                     s[i] \in {NL, SP, TAB} /\ \A j \in 1..(i - 1) : s[j] \notin {NL, SP, TAB}
         IN <<SubSeq(s, 1, i - 1)>> \o Split(SubSeq(s, i + 1, Len(s)))
    ELSE <<s>>

\* [f for f in flags if not f.startswith(prefix)]
NotStartingWith(flags, prefix) == SelectSeq(flags, LAMBDA f : ~StartsWith(f, prefix))

\* list.remove(x): the first occurrence goes
Remove(flags, x) ==
    IF \E i \in 1..Len(flags) : flags[i] = x
    THEN LET i == CHOOSE i \in 1..Len(flags) :
                     flags[i] = x /\ \A j \in 1..(i - 1) : flags[j] # x
         IN SubSeq(flags, 1, i - 1) \o SubSeq(flags, i + 1, Len(flags))
    ELSE flags

STATS_5S == <<"--stats", EQ, "5s">>
STATS_10S == <<"--stats", EQ, "10s">>
SHARED_WITH_ME == <<"--drive", "-shared-with-me">>

\* what is typed at "Enter the full flag to add/edit"
FlagInputs == {STATS_5S, STATS_10S, SHARED_WITH_ME}
\* what is typed at "Enter the flag key to delete"; <<>> is Enter alone, which
\* Prompt.ask returns as ""
KeyInputs == {<<"--stats">>, <<"--drive">>, SHARED_WITH_ME, <<>>}
\* what is typed at "Enter the remote type", and what rclone reports as type
IniTypes == {"drive", "mega"}

SECTION == <<"[", "rclone_flags", "]">>

RECURSIVE IniWriteOptions(_)
\* ConfigParser.write: "key = value", the value's further lines after a tab
IniWriteOptions(opts) ==
    IF opts = <<>> THEN <<>>
    ELSE LET ls == SplitOn(opts[1][2], NL)
         IN <<(<<opts[1][1], SP, EQ, SP>> \o ls[1])>>
            \o [i \in 1..(Len(ls) - 1) |-> <<TAB>> \o ls[i + 1]]
            \o IniWriteOptions(Tail(opts))

IniWrite(opts) == <<SECTION>> \o IniWriteOptions(opts) \o << <<>> >>

RECURSIVE IniReadLines(_, _)
\* ConfigParser.read, for the lines after the section header: a line that
\* starts with white space continues the value of the option before it
IniReadLines(lines, acc) ==
    IF lines = <<>> THEN acc
    ELSE IF lines[1] = <<>> THEN IniReadLines(Tail(lines), acc)
    ELSE IF lines[1][1] = TAB
    THEN Only({ IniReadLines(Tail(lines), acc2) :
                acc2 \in { [acc EXCEPT ![Len(acc)][2] = @ \o <<NL>> \o Tail(lines[1])] } })
    ELSE Only({ IniReadLines(Tail(lines), acc2) :
                acc2 \in { Put(acc, lines[1][1], SubSeq(lines[1], 5, Len(lines[1]))) } })

\* config.read(config_path): a missing file is skipped without an error
IniRead(f) ==
    IF f.exists /\ f.lines # <<>> /\ f.lines[1] = SECTION
    THEN IniReadLines(Tail(f.lines), <<>>)
    ELSE <<>>

Upper(rt) == IF rt = "drive" THEN "DRIVE" ELSE IF rt = "mega" THEN "MEGA" ELSE rt

\* os.environ as the process gets it from the shell: without the variable, or
\* with RCLONE_FLAGS_DRIVE naming the flag twice
InheritedEnviron ==
    {<<>>, << <<"RCLONE_FLAGS_DRIVE", SHARED_WITH_ME \o <<SP>> \o SHARED_WITH_ME>> >>}

\* setup_env(root_dir): one variable per option of the section
setup_env(f) ==
    IF ~f.exists THEN <<>>
    ELSE LET opts == IniRead(f)
         IN [i \in 1..Len(opts) |-> <<"RCLONE_FLAGS_" \o Upper(opts[i][1]), opts[i][2]>>]

\* get_rclone_flags(remote_type)
get_rclone_flags(env, rt) ==
    Split(IF Has(env, "RCLONE_FLAGS_" \o Upper(rt))
          THEN Get(env, "RCLONE_FLAGS_" \o Upper(rt)) ELSE <<>>)

\* _serve_remote_thread: the flags the command gets
ThreadFlags(env, rt, shared) ==
    LET flags == get_rclone_flags(env, rt)
    IN IF rt = "drive"
       THEN IF shared
            THEN IF \E i \in 1..Len(flags) : flags[i] = SHARED_WITH_ME
                 THEN flags ELSE Append(flags, SHARED_WITH_ME)
            ELSE Remove(flags, SHARED_WITH_ME)
       ELSE flags

\* _serve_remote_thread: the command
ThreadCommand(backend, remote, port, user, passw, flags) ==
    << <<"rclone">>, <<"serve">>, <<backend>>, <<remote, ":">>,
       <<"--addr">>, <<"ip", ":", port>>, <<"--user">>, <<user>>,
       <<"--pass">>, <<passw>> >> \o flags

RECURSIVE CountLines(_)
CountLines(opts) ==
    IF opts = <<>> THEN 0 ELSE Len(SplitLines(opts[1][2])) + CountLines(Tail(opts))

IniOp(op, rt, flag, before, io) ==
    [op |-> op, rt |-> rt, flag |-> flag, before |-> before, io |-> io]

IniNoOp == IniOp("none", "", <<>>, <<>>, "none")

\* rclone_manager.py: the process starts and setup_env fills the environment
IniStart ==
    /\ iniStatus \in {"idle", "crashed"}
    /\ \E inherited \in InheritedEnviron :
         environ' = Update(inherited, setup_env(iniFile))
    /\ iniStatus' = "started"
    /\ iniConfig' = <<>>
    /\ iniCommand' = <<>>
    /\ iniLast' = IniOp("start", "", <<>>, <<>>, "none")
    /\ UNCHANGED iniFile
    /\ UNCHANGED notIniVars

\* _serve_remote_thread(remote, backend, port, user, passw, shared)
serve_remote_thread ==
    /\ iniStatus = "started"
    /\ \E rt \in IniTypes, shared \in BOOLEAN :
        /\ shared => rt = "drive"
        /\ \E flags \in {ThreadFlags(environ, rt, shared)} :
            iniCommand' = [rt |-> rt, shared |-> shared, flags |-> flags,
                           argv |-> ThreadCommand("webdav", "remote", "8080",
                                                  "user", "pass", flags)]
        /\ iniLast' = IniOp("serve", rt, <<>>, <<>>, "none")
    /\ iniStatus' = "idle"
    /\ environ' = <<>>
    /\ UNCHANGED <<iniFile, iniConfig>>
    /\ UNCHANGED notIniVars

\* manage_config(), up to the menu.  The body is taken as written: cli.py
\* does not import manage_config and core.py does not import ConfigParser, so
\* the menu runs once these two names are bound.
manage_config ==
    /\ iniStatus = "started"
    /\ iniConfig' = IniRead(iniFile)
    /\ iniStatus' = "menu"
    /\ iniLast' = IniOp("read", "", <<>>, <<>>, "none")
    /\ UNCHANGED <<iniFile, environ, iniCommand>>
    /\ UNCHANGED notIniVars

\* save_changes(), after the handler put new_flags in config: an open() that
\* fails raises out of the menu
IniSave(op, rt, flag, new_flags, io) ==
    \E cfg \in {Put(iniConfig, rt, Join(NL, new_flags))} :
        /\ iniLast' = IniOp(op, rt, flag,
                            IF Has(iniConfig, rt) THEN SplitLines(Get(iniConfig, rt))
                            ELSE <<>>, io)
        /\ IF io = "ok"
           THEN /\ iniConfig' = cfg
                /\ iniFile' = [exists |-> TRUE, lines |-> IniWrite(cfg)]
                /\ iniStatus' = "menu"
           ELSE /\ iniConfig' = <<>>
                /\ iniFile' = iniFile
                /\ iniStatus' = "crashed"
        /\ environ' = (IF io = "ok" THEN environ ELSE <<>>)
        /\ UNCHANGED iniCommand
        /\ UNCHANGED notIniVars

IniIo == {"ok", "open_fails"}

\* choice "1": the flags are printed
IniView ==
    /\ iniStatus = "menu"
    /\ iniLast' = IniOp("view", "", <<>>, <<>>, "none")
    /\ UNCHANGED <<iniFile, iniConfig, environ, iniStatus, iniCommand>>
    /\ UNCHANGED notIniVars

\* choice "2": add or edit a flag
IniAddEdit ==
    /\ iniStatus = "menu"
    /\ \E remote_type \in IniTypes, flag_to_add \in FlagInputs, io \in IniIo :
        LET existing_flags == IF Has(iniConfig, remote_type)
                              THEN SplitLines(Get(iniConfig, remote_type)) ELSE <<>>
            flag_key == BeforeFirst(flag_to_add, EQ)
            new_flags == Append(NotStartingWith(existing_flags, flag_key), flag_to_add)
        IN /\ CountLines(SelectSeq(iniConfig, LAMBDA o : o[1] # remote_type))
                + Len(new_flags) <= MaxLines
           /\ IniSave("add", remote_type, flag_to_add, new_flags, io)

\* choice "3": delete a flag
IniDelete ==
    /\ iniStatus = "menu"
    /\ \E remote_type \in IniTypes, flag_to_delete \in KeyInputs, io \in IniIo :
        IF ~Has(iniConfig, remote_type)
        THEN /\ iniLast' = IniOp("delete", remote_type, flag_to_delete, <<>>, "none")
             /\ UNCHANGED <<iniFile, iniConfig, environ, iniStatus, iniCommand>>
             /\ UNCHANGED notIniVars
        ELSE LET existing_flags == SplitLines(Get(iniConfig, remote_type))
                 new_flags == NotStartingWith(existing_flags, flag_to_delete)
             IN IniSave("delete", remote_type, flag_to_delete, new_flags, io)

\* choice "4": the menu returns and the process ends
IniExit ==
    /\ iniStatus = "menu"
    /\ iniStatus' = "idle"
    /\ iniConfig' = <<>>
    /\ iniLast' = IniOp("exit", "", <<>>, <<>>, "none")
    /\ environ' = <<>>
    /\ UNCHANGED <<iniFile, iniCommand>>
    /\ UNCHANGED notIniVars

(***************************************************************************)
(* rclone_scripts/utils.py: the two navigators.  A name is a text, a local *)
(* path is the sequence of the names under "/", and a remote path is a     *)
(* text whose pieces are names, ":" and "/".                               *)
(***************************************************************************)
SLASH == "/"
HOME == << <<"home">>, <<"u">> >>
REMOTE == "remote"

\* os.listdir(path), in the order the system gives
listdir(path) ==
    IF path = <<>> THEN << <<"home">> >>
    ELSE IF path = << <<"home">> >> THEN << <<"u">> >>
    ELSE IF path = HOME
    THEN << <<"pics">>, <<"docs">>, <<".", "cache">>, <<"b.txt">>, <<"a.txt">> >>
    ELSE IF path = Append(HOME, <<"pics">>) THEN << <<"c.txt">> >>
    ELSE <<>>

LocalDirs == {<<>>, << <<"home">> >>, HOME, Append(HOME, <<"docs">>),
              Append(HOME, <<"pics">>), Append(HOME, <<".", "cache">>)}
LocalFiles == {Append(HOME, <<"a.txt">>), Append(HOME, <<"b.txt">>),
               Append(Append(HOME, <<"pics">>), <<"c.txt">>)}

isdir(path) == path \in LocalDirs
isfile(path) == path \in LocalFiles

\* item.startswith('.')
Hidden(name) == StartsWith(name, <<".">>)

\* the order of sorted() on the names of the two trees
Rank(item) ==
    IF item = <<>> THEN 0
    ELSE IF item[1] = "." THEN 1
    ELSE IF item[1] = "a.txt" THEN 2
    ELSE IF item[1] = "b.txt" THEN 3
    ELSE IF item[1] = "c.txt" THEN 4
    ELSE IF item[1] = "docs" THEN 5
    ELSE IF item[1] = "home" THEN 6
    ELSE IF item[1] = "pics" THEN 7
    ELSE 8

RECURSIVE Insert(_, _)
Insert(sorted, item) ==
    IF sorted = <<>> THEN <<item>>
    ELSE IF Rank(item) < Rank(sorted[1]) THEN <<item>> \o sorted
    ELSE <<sorted[1]>> \o Insert(Tail(sorted), item)

RECURSIVE Sorted(_)
\* sorted(items)
Sorted(items) ==
    IF items = <<>> THEN <<>> ELSE Insert(Sorted(Tail(items)), items[1])

\* os.path.dirname of an absolute local path: "/" is its own parent
LocalDirname(path) == IF path = <<>> THEN <<>> ELSE SubSeq(path, 1, Len(path) - 1)

RECURSIVE RStrip(_, _)
\* s.rstrip(c)
RStrip(s, c) ==
    IF s # <<>> /\ s[Len(s)] = c THEN RStrip(SubSeq(s, 1, Len(s) - 1), c) ELSE s

RECURSIVE LStrip(_, _)
LStrip(s, c) == IF s # <<>> /\ s[1] = c THEN LStrip(Tail(s), c) ELSE s

\* s.strip(c)
Strip(s, c) == LStrip(RStrip(s, c), c)

\* os.path.dirname(p) of posixpath: up to the last "/", trailing "/" taken
\* off the head unless the head is nothing but "/"
Dirname(p) ==
    IF \E i \in 1..Len(p) : p[i] = SLASH
    THEN LET i == CHOOSE i \in 1..Len(p) :
                      p[i] = SLASH /\ \A j \in (i + 1)..Len(p) : p[j] # SLASH
             head == SubSeq(p, 1, i)
         IN IF RStrip(head, SLASH) = <<>> THEN head ELSE RStrip(head, SLASH)
    ELSE <<>>

RemoteRoot == <<REMOTE, ":">>

\* what "rclone lsf path" prints; a path without "remote:" is a path of the
\* local file system, and a path that does not exist fails
Lsf(path) ==
    IF path = RemoteRoot
    THEN [ok |-> TRUE, output |-> <<"docs", SLASH, NL, "a.txt", NL>>]
    ELSE IF path = RemoteRoot \o <<"docs", SLASH>>
    THEN [ok |-> TRUE, output |-> <<>>]
    ELSE IF path = <<SLASH>>
    THEN [ok |-> TRUE, output |-> <<"home", SLASH, NL>>]
    ELSE IF path = <<SLASH, "home", SLASH>>
    THEN [ok |-> TRUE, output |-> <<"u", SLASH, NL>>]
    ELSE IF path = <<SLASH, "home", SLASH, "u", SLASH>>
    THEN [ok |-> TRUE, output |-> <<"a.txt", NL, "b.txt", NL, "docs", SLASH, NL,
                                   "pics", SLASH, NL>>]
    ELSE IF path = <<SLASH, "home", SLASH, "u", SLASH, "docs", SLASH>>
    THEN [ok |-> TRUE, output |-> <<>>]
    ELSE IF path = <<SLASH, "home", SLASH, "u", SLASH, "pics", SLASH>>
    THEN [ok |-> TRUE, output |-> <<"c.txt", NL>>]
    ELSE [ok |-> FALSE, output |-> <<>>]

\* output.strip(): white space off both ends
StripWs(s) == Strip(Strip(s, NL), SP)

\* the choices typed at the prompt; a choice is the text between the commas
Choices ==
    { <<"..">>, <<".">>, <<"D">>, <<"">>, <<"x">>, <<"0">>, <<"-1">>, <<"1">>, <<"2">>,
      <<"3">>, <<"4">>, <<"1", "2">>, <<"2", "x">>, <<"2", "0">> }

IsInt(text) == text \in {"-1", "0", "1", "2", "3", "4"}

\* int(text)
IntOf(text) ==
    IF text = "-1" THEN 0 - 1
    ELSE IF text = "0" THEN 0
    ELSE IF text = "1" THEN 1
    ELSE IF text = "2" THEN 2
    ELSE IF text = "3" THEN 3
    ELSE 4

\* choice.lower()
LowerChoice(choice) == IF choice = <<"D">> THEN <<"d">> ELSE choice

\* [int(i.strip()) - 1 for i in choice.split(",")] and [items[i] for i in
\* selected_indices]: a text that is no number raises ValueError, an index
\* items[] does not have raises IndexError, and items[-k] counts from the end
SelectItems(items, choice) ==
    IF \E k \in 1..Len(choice) : ~IsInt(choice[k])
    THEN [raised |-> "ValueError", items |-> <<>>]
    ELSE LET selected_indices == [k \in 1..Len(choice) |-> IntOf(choice[k]) - 1]
             n == Len(items)
         IN IF \E k \in 1..Len(choice) :
                   selected_indices[k] >= n \/ selected_indices[k] < 0 - n
            THEN [raised |-> "IndexError", items |-> <<>>]
            ELSE [raised |-> "",
                  items |-> [k \in 1..Len(choice) |->
                               IF selected_indices[k] >= 0
                               THEN items[selected_indices[k] + 1]
                               ELSE items[n + selected_indices[k] + 1]]]

\* no turn taken yet
NavNone ==
    [op |-> "none", choice |-> <<>>, cursor |-> <<>>, entries |-> <<>>,
     descended |-> FALSE, afterDescent |-> FALSE, from |-> <<>>]

\* the turn taken last: what was typed, the cursor and the entries it was
\* typed at, whether the turn went down into an entry, and whether the turn
\* before did, and from where
NavOp(op, choice, before, entries, descended) ==
    [op |-> op, choice |-> choice, cursor |-> before, entries |-> entries,
     descended |-> descended, afterDescent |-> navLast.descended,
     from |-> IF navLast.descended THEN navLast.cursor ELSE <<>>]

\* a navigator is called: the cursor is the home directory or the remote
NavOpen ==
    /\ navState = "Idle"
    /\ \E kind \in {"local", "remote"} :
        /\ navKind' = kind
        /\ cursor' = (IF kind = "local" THEN HOME ELSE RemoteRoot)
    /\ navState' = "Browsing"
    /\ selection' = <<>>
    /\ navMsg' = ""
    /\ navLast' = NavOp("open", <<>>, <<>>, <<>>, FALSE)
    /\ UNCHANGED notNavVars

NavReturn(paths, choice, entries) ==
    /\ navState' = "Done"
    /\ selection' = paths
    /\ cursor' = cursor
    /\ navMsg' = ""
    /\ navLast' = NavOp("choice", choice, cursor, entries, FALSE)

NavStay(current, text, choice, entries) ==
    /\ navState' = "Browsing"
    /\ selection' = <<>>
    /\ cursor' = current
    /\ navMsg' = text
    /\ navLast' = NavOp("choice", choice, cursor, entries, FALSE)

\* the one item chosen is a directory: the cursor goes into it
NavDescend(current, choice, entries) ==
    /\ navState' = "Browsing"
    /\ selection' = <<>>
    /\ cursor' = current
    /\ navMsg' = ""
    /\ navLast' = NavOp("choice", choice, cursor, entries, TRUE)

\* navigate_local_file_system(): one turn of the loop
navigate_local_file_system ==
    /\ navState = "Browsing" /\ navKind = "local"
    /\ \E choice \in Choices, fs \in {"ok", "not_found", "denied"} :
        /\ fs = "not_found" => cursor # HOME
        /\ IF fs = "not_found"
           THEN /\ navState' = "Browsing"
                /\ selection' = <<>>
                /\ cursor' = HOME
                /\ navMsg' = "Directory not found."
                /\ navLast' = NavOp("listdir", <<>>, cursor, <<>>, FALSE)
           ELSE IF fs = "denied"
           THEN /\ navState' = "Crashed"
                /\ navMsg' = "Traceback"
                /\ navLast' = NavOp("listdir", <<>>, cursor, <<>>, FALSE)
                /\ UNCHANGED <<cursor, selection>>
           ELSE LET all_items == Sorted(SelectSeq(listdir(cursor), LAMBDA i : ~Hidden(i)))
                    dirs == SelectSeq(all_items, LAMBDA d : isdir(Append(cursor, d)))
                    files == SelectSeq(all_items, LAMBDA f : isfile(Append(cursor, f)))
                    items == dirs \o files
                IN IF choice = <<"..">>
                   THEN NavStay(LocalDirname(cursor), "", choice, items)
                   ELSE IF LowerChoice(choice) \in {<<".">>, <<"d">>}
                   THEN NavReturn(<<cursor>>, choice, items)
                   ELSE \E sel \in {SelectItems(items, choice)} :
                       IF sel.raised # ""
                       THEN NavStay(cursor, "Invalid choice.", choice, items)
                       ELSE IF Len(sel.items) = 1
                               /\ \E k \in 1..Len(dirs) : dirs[k] = sel.items[1]
                       THEN NavDescend(Append(cursor, sel.items[1]), choice, items)
                       ELSE NavReturn([k \in 1..Len(sel.items) |->
                                         Append(cursor, sel.items[k])], choice, items)
    /\ UNCHANGED navKind
    /\ UNCHANGED notNavVars

\* navigate_remote_file_system(remote): one turn of the loop
navigate_remote_file_system ==
    /\ navState = "Browsing" /\ navKind = "remote"
    /\ \E choice \in Choices, rc \in {"ok", "fails"} :
        \E ls \in {Lsf(cursor)} :
            IF rc = "fails" \/ ~ls.ok
            THEN /\ navState' = "Done"
                 /\ selection' = <<cursor>>
                 /\ cursor' = cursor
                 /\ navMsg' = "Error listing remote directory."
                 /\ navLast' = NavOp("lsf", <<>>, cursor, <<>>, FALSE)
            ELSE LET items == Sorted(SplitOn(StripWs(ls.output), NL))
                     entries == SelectSeq(items, LAMBDA i : i # <<>>)
                 IN IF LowerChoice(choice) \in {<<".">>, <<"d">>}
                    THEN NavReturn(<<cursor>>, choice, entries)
                    ELSE IF choice = <<"..">>
                    THEN IF Strip(cursor, SLASH) = Strip(RemoteRoot, SLASH)
                         THEN NavStay(cursor, "", choice, entries)
                         ELSE NavStay(Dirname(RStrip(cursor, SLASH)) \o <<SLASH>>, "",
                                      choice, entries)
                    ELSE \E sel \in {SelectItems(items, choice)} :
                        IF sel.raised # ""
                        THEN NavStay(cursor, "Invalid choice.", choice, entries)
                        ELSE IF Len(sel.items) = 1 /\ sel.items[1] # <<>>
                                /\ sel.items[1][Len(sel.items[1])] = SLASH
                        THEN NavDescend(cursor \o sel.items[1], choice, entries)
                        ELSE NavReturn([k \in 1..Len(sel.items) |->
                                          cursor \o sel.items[k]], choice, entries)
    /\ UNCHANGED navKind
    /\ UNCHANGED notNavVars

\* the caller has the navigator's result
NavClose ==
    /\ navState \in {"Done", "Crashed"}
    /\ navState' = "Idle"
    /\ navLast' = NavOp("close", <<>>, <<>>, <<>>, FALSE)
    /\ UNCHANGED <<navKind, cursor, selection, navMsg>>
    /\ UNCHANGED notNavVars

(***************************************************************************)
(* rclone_scripts/core.py: upload_backup, download_backup and sync_remotes. *)
(* A navigator's result is a str when selection has one path and a list    *)
(* when it has more.                                                       *)
(***************************************************************************)
RECURSIVE PathText(_)
\* the text of a local path: "/" before each name, "/" alone for the root
PathText(path) ==
    IF path = <<>> THEN <<SLASH>>
    ELSE IF Len(path) = 1 THEN <<SLASH>> \o path[1]
    ELSE PathText(SubSeq(path, 1, Len(path) - 1)) \o <<SLASH>> \o path[Len(path)]

\* the result of the navigator that ended, as the texts the caller gets
ResultTexts ==
    IF navKind = "local" THEN [k \in 1..Len(selection) |-> PathText(selection[k])]
    ELSE selection

\* os.path.basename(p): what follows the last "/"
Basename(p) ==
    IF \E i \in 1..Len(p) : p[i] = SLASH
    THEN LET i == CHOOSE i \in 1..Len(p) :
                      p[i] = SLASH /\ \A j \in (i + 1)..Len(p) : p[j] # SLASH
         IN SubSeq(p, i + 1, Len(p))
    ELSE p

\* os.path.isfile(text)
IsFileText(text) == \E f \in LocalFiles : PathText(f) = text

\* first is what the first navigator returned and at its cursor at that time
NoFlow ==
    [name |-> "none", overwrite |-> FALSE, step |-> "idle", first |-> <<>>,
     at |-> <<>>]

Run(argv, stdin) == [argv |-> argv, stdin |-> stdin]

\* base_command = ["rclone", "copy"], with "--ignore-times" when overwrite
BaseCommand(overwrite) ==
    << <<"rclone">>, <<"copy">> >>
    \o (IF overwrite THEN << <<"--ignore-times">> >> ELSE <<>>)

\* the caller calls a navigator: it starts at the home directory or at the
\* remote
CallNavigator(kind) ==
    /\ navKind' = kind
    /\ cursor' = (IF kind = "local" THEN HOME ELSE RemoteRoot)
    /\ navState' = "Browsing"
    /\ selection' = <<>>
    /\ navMsg' = ""
    /\ navLast' = NavOp("open", <<>>, <<>>, <<>>, FALSE)

\* the navigator ended and no other is called
NavigatorOver ==
    /\ navState' = "Idle"
    /\ navLast' = NavOp("close", <<>>, <<>>, <<>>, FALSE)
    /\ UNCHANGED <<navKind, cursor, selection, navMsg>>

\* a command of the CLI starts with its first navigator
FlowStart(name, kind) ==
    /\ flow.step = "idle" /\ navState = "Idle"
    /\ \E overwrite \in (IF name = "sync" THEN {FALSE} ELSE BOOLEAN) :
        flow' = [name |-> name, overwrite |-> overwrite, step |-> "first",
                 first |-> <<>>, at |-> <<>>]
    /\ runs' = <<>>
    /\ CallNavigator(kind)
    /\ UNCHANGED notCopyVars

\* the first navigator ended: an exception it raised ends the command, else
\* its result is kept and the second navigator is called
FlowSecond(name, kind) ==
    /\ flow.name = name /\ flow.step = "first"
    /\ navState \in {"Done", "Crashed"}
    /\ IF navState = "Crashed"
       THEN /\ flow' = [flow EXCEPT !.step = "crashed"]
            /\ NavigatorOver
       ELSE /\ flow' = [flow EXCEPT !.step = "second", !.first = ResultTexts,
                                    !.at = cursor]
            /\ CallNavigator(kind)
    /\ UNCHANGED runs
    /\ UNCHANGED notCopyVars

\* the command ends: step is "done", "returned" or "crashed"
FlowEnd(step, started) ==
    /\ flow' = [flow EXCEPT !.step = step]
    /\ runs' = started
    /\ NavigatorOver
    /\ UNCHANGED notCopyVars

\* upload_backup(overwrite), up to the first navigator
upload_backup ==
    /\ flow.name = "none"
    /\ FlowStart("upload", "local")

\* upload_backup: steps 2 and 3, up to the second navigator
UploadDestination ==
    /\ flow.name = "upload"
    /\ FlowSecond("upload", "remote")

\* upload_backup, steps 3 and 4: the rclone processes it starts for the
\* selection (a list of texts) and the destination
UploadRuns(local_selection, remote_dir, overwrite) ==
    LET base_command == BaseCommand(overwrite)
    IN  IF Len(local_selection) = 1
        THEN <<Run(base_command \o <<local_selection[1], remote_dir, <<"--progress">>>>,
                   <<>>)>>
        ELSE LET base_dir == Dirname(local_selection[1])
                 file_names == [k \in 1..Len(local_selection) |->
                                  Basename(local_selection[k])]
             IN <<Run(base_command
                      \o << <<"--files-from">>, <<"-">>, base_dir, remote_dir,
                            <<"--progress">> >>,
                      Join(NL, file_names))>>

\* upload_backup from the return of the second navigator: a list has no
\* endswith, so a list as remote_dir raises AttributeError
UploadCopy ==
    /\ flow.name = "upload" /\ flow.step = "second"
    /\ navState \in {"Done", "Crashed"}
    /\ IF navState = "Crashed" \/ Len(selection) # 1
       THEN FlowEnd("crashed", <<>>)
       ELSE LET remote_dir == IF selection[1][Len(selection[1])] = SLASH
                              THEN selection[1]
                              ELSE Strip(selection[1], SLASH) \o <<SLASH>>
            IN FlowEnd("done", UploadRuns(flow.first, remote_dir, flow.overwrite))

\* download_backup(overwrite), up to the first navigator
download_backup ==
    /\ flow.name = "none"
    /\ FlowStart("download", "remote")

\* download_backup: step 3, up to the second navigator
DownloadDestination ==
    /\ flow.name = "download"
    /\ FlowSecond("download", "local")

\* download_backup, step 4: the rclone processes it starts for the selection
\* (a list of texts) and the destination
DownloadRuns(remote_selection, local_dir, overwrite) ==
    LET base_command == BaseCommand(overwrite)
    IN  IF Len(remote_selection) = 1
        THEN <<Run(base_command \o <<remote_selection[1], local_dir, <<"--progress">>>>,
                   <<>>)>>
        ELSE IF overwrite
        THEN [k \in 1..Len(remote_selection) |->
                Run(base_command \o <<remote_selection[k], local_dir, <<"--progress">>>>,
                    <<>>)]
        ELSE LET remote_path_base == Dirname(remote_selection[1]) \o <<SLASH>>
                 file_names_only == [k \in 1..Len(remote_selection) |->
                                       Basename(RStrip(remote_selection[k], SLASH))]
             IN <<Run(base_command
                      \o << <<"--files-from">>, <<"-">>, remote_path_base, local_dir,
                            <<"--progress">> >>,
                      Join(NL, file_names_only))>>

\* download_backup from the return of the second navigator:
\* os.path.isfile(local_dir) raises TypeError for a list
DownloadCopy ==
    /\ flow.name = "download" /\ flow.step = "second"
    /\ navState \in {"Done", "Crashed"}
    /\ IF navState = "Crashed" \/ Len(selection) # 1
       THEN FlowEnd("crashed", <<>>)
       ELSE IF IsFileText(PathText(selection[1]))
       THEN FlowEnd("returned", <<>>)
       ELSE FlowEnd("done",
                    DownloadRuns(flow.first, PathText(selection[1]), flow.overwrite))

\* sync_remotes(), up to the first navigator
sync_remotes ==
    /\ flow.name = "none"
    /\ FlowStart("sync", "remote")

\* sync_remotes: the destination remote, up to the second navigator
SyncDestination ==
    /\ flow.name = "sync"
    /\ FlowSecond("sync", "remote")

\* sync_remotes from the return of the second navigator: source_path and
\* destination_path go into the command as they are, a list included, and
\* subprocess.run raises TypeError for an argument that is a list
SyncRun ==
    /\ flow.name = "sync" /\ flow.step = "second"
    /\ navState \in {"Done", "Crashed"}
    /\ IF navState = "Crashed"
       THEN FlowEnd("crashed", <<>>)
       ELSE LET source_path == IF Len(flow.first) = 1 THEN flow.first[1]
                               ELSE <<"list">> \o Join(NL, flow.first)
                destination_path == IF Len(selection) = 1 THEN selection[1]
                                    ELSE <<"list">> \o Join(NL, selection)
                sync_command == << <<"rclone">>, <<"sync">>, source_path,
                                   destination_path, <<"--progress">> >>
            IN IF Len(flow.first) = 1 /\ Len(selection) = 1
               THEN FlowEnd("done", <<Run(sync_command, <<>>)>>)
               ELSE FlowEnd("crashed", <<Run(sync_command, <<>>)>>)

(***************************************************************************)
(* Serve sessions: rclone_scripts/core.py serve_remote (behind cli.py),    *)
(* rclone/run_webdav.py main and serve_gdrive, codes/serve_remote.py and   *)
(* codes/rclone_serve.py main. The main thread plans one job per rclone    *)
(* serve process, starts a worker thread per job and joins the workers;    *)
(* Ctrl+C raises KeyboardInterrupt in the main thread.                     *)
(***************************************************************************)
\* the most remotes the user selects in core.py serve_remote
MaxRemotes == 2

\* the entry points that serve remotes
Programs == {"core", "run_webdav", "serve_remote", "rclone_serve"}

\* the configured remotes, and rclone's type of each
ServeRemotes == {"gdrive", "mega"}
get_remote_type(remote) == IF remote = "gdrive" THEN "drive" ELSE "mega"

\* list_rclone_remotes() of core.py, as numbered by choose_from_list
RemoteItems == <<"gdrive", "mega">>

\* what the user types between the commas of a choice, and the whole choice
\* ("" is no part at all)
ChoiceParts == {"0", "1", "2", "3", "x"}
ChoicesStr == UNION {[1..n -> ChoiceParts] : n \in 0..MaxRemotes}

\* int(i.strip()) of one part: -1 stands for ValueError
PartInt(part) ==
    CASE part = "0" -> 0 [] part = "1" -> 1 [] part = "2" -> 2 [] part = "3" -> 3
      [] OTHER -> -1

\* items[i] of Python for the index i = int(part) - 1: a negative index counts
\* from the end, an index outside the list raises IndexError
Subscript(items, i) ==
    IF 0 <= i /\ i < Len(items) THEN [ok |-> TRUE, item |-> items[i + 1]]
    ELSE IF i < 0 /\ -i <= Len(items) THEN [ok |-> TRUE, item |-> items[Len(items) + i + 1]]
    ELSE [ok |-> FALSE, item |-> ""]

\* choose_from_list(items, message) for the typed choice: "none" for None,
\* "ok" with the chosen items, or the exception it raises
choose_from_list(items, choices_str) ==
    IF choices_str = <<>> THEN [how |-> "none", items |-> <<>>]
    ELSE IF \E k \in 1..Len(choices_str) : PartInt(choices_str[k]) = -1
    THEN [how |-> "ValueError", items |-> <<>>]
    ELSE IF \E k \in 1..Len(choices_str) :
                ~Subscript(items, PartInt(choices_str[k]) - 1).ok
    THEN [how |-> "IndexError", items |-> <<>>]
    ELSE [how |-> "ok",
          items |-> [k \in 1..Len(choices_str) |->
                       Subscript(items, PartInt(choices_str[k]) - 1).item]]

\* a choice that names something the list does not offer
InvalidChoice(items, choices_str) ==
    \E k \in 1..Len(choices_str) :
        PartInt(choices_str[k]) < 1 \/ PartInt(choices_str[k]) > Len(items)

\* an entry of jobs_to_run
Job(remote, port, shared) == [remote |-> remote, port |-> port, shared |-> shared]

RECURSIVE PlanJobs(_, _, _)
\* the planning loop of core.py serve_remote: selected_remotes still to plan,
\* the answers to "Serve shared drive ... as well?", port as it stands
PlanJobs(selected_remotes, serve_shared, port) ==
    IF selected_remotes = <<>> THEN <<>>
    ELSE LET remote == Head(selected_remotes)
             both == get_remote_type(remote) = "drive" /\ Head(serve_shared) = "y"
         IN  <<Job(remote, port, FALSE)>>
             \o (IF both THEN <<Job(remote, port + 1, TRUE)>> ELSE <<>>)
             \o PlanJobs(Tail(selected_remotes), Tail(serve_shared),
                         IF both THEN port + 2 ELSE port + 1)

\* the two instances main() of a codes/ script starts for a drive remote
TwoJobs(remote, personal_port, shared_port) ==
    <<Job(remote, personal_port, FALSE), Job(remote, shared_port, TRUE)>>

\* the main thread before a program runs
ParentIdle ==
    [pc |-> "idle", i |-> 0, first |-> 0, interrupted |-> FALSE, notice |-> "",
     exit |-> -1, tool |-> "ok", said |-> 0, trace |-> FALSE, typed |-> "none"]

\* the main thread at the first thread.start()
ParentStart == [ParentIdle EXCEPT !.pc = "start", !.i = 1]

\* the main thread inside a direct call of serve_remote() or run()
ParentCall == [ParentIdle EXCEPT !.pc = "call"]

\* the process ended: how, with which last message and which exit status
ParentExit(interrupted, notice, exit) ==
    [parent EXCEPT !.pc = "exited", !.interrupted = interrupted,
                   !.notice = notice, !.exit = exit]

\* Thread objects constructed and not started
Created(n) == [k \in 1..n |-> "created"]

\* thread.join(timeout=0): returns at once
join_timeout(thread) == TRUE

\* thread.join() with no timeout returns once the thread has finished
join(thread) == thread = "finished"

\* DEFAULT_CONFIG["flags"] of codes/rclone_serve.py
RS_DEFAULT_CONFIG ==
    <<<<"drive", <<>>>>, <<"mega", <<>>>>, <<"http", <<>>>>, <<"webdav", <<>>>>,
      <<"ftp", <<>>>>, <<"sftp", <<>>>>>>

\* load_config() of the codes/ script p once it found no cache
LoadConfigOf(p, f) ==
    IF p = "rclone_serve" /\ ~f.exists
    THEN [ok |-> TRUE, store |-> RS_DEFAULT_CONFIG,
          file |-> Doc(DumpCodes(RS_DEFAULT_CONFIG))]
    ELSE load_config(f)

\* where a started thread is: a worker of codes/ is in serve_remote() before
\* its rclone runs, a worker of run_webdav.py is in run(command)
Entered(p) == IF p = "run_webdav" THEN "running" ELSE "started"

\* Thread(..., daemon=True) in core.py and in codes/; run_webdav.py gives no
\* daemon argument
Daemon(p) == p # "run_webdav"

\* a worker once the main thread has handled KeyboardInterrupt and left. No
\* handler terminates a process. With group (Ctrl+C in a terminal: SIGINT
\* goes to the whole foreground process group) every rclone gets the signal
\* and ends; without it (SIGINT to the Python process alone) the rclone of a
\* daemon thread outlives the interpreter, and the interpreter waits for a
\* thread that is not a daemon
AfterInterrupt(p, thread, group) ==
    IF thread = "finished" THEN "finished"
    ELSE IF thread = "running"
    THEN (IF group THEN "finished" ELSE IF Daemon(p) THEN "orphaned" ELSE "running")
    ELSE IF Daemon(p) THEN "finished" ELSE thread

\* what the handler of KeyboardInterrupt of each program logs or prints
InterruptNotice(p) ==
    CASE p = "core" -> "Execution cancelled by user."
      [] p = "run_webdav" -> "Operation canceled by the user."
      [] p = "serve_remote" -> "Script interrupted, Bye!"
      [] OTHER -> "Bye!"

\* the exit status after that handler: sys.exit(1) in run_webdav.py, sys.exit()
\* in the codes/ scripts, and cli.py's main() returns after it printed
InterruptExit(p) == IF p = "run_webdav" THEN 1 ELSE 0

\* rclone serve-remote: core.py serve_remote up to the execution phase
serve_remote ==
    /\ program = "none"
    /\ \E choices_str \in ChoicesStr, backend \in {<<"2">>, <<>>} :
         \E chosen \in {choose_from_list(RemoteItems, choices_str)} :
         \E serve_shared \in [1..Len(chosen.items) -> {"y", "n"}] :
            LET typed == IF choices_str = <<>> THEN "empty"
                         ELSE IF InvalidChoice(RemoteItems, choices_str) THEN "invalid"
                         ELSE "valid"
                me == [parent EXCEPT !.typed = typed]
            IN  IF chosen.how \in {"ValueError", "IndexError"}
                THEN \* no handler but the one for KeyboardInterrupt
                     /\ jobs' = <<>>
                     /\ parent' = [me EXCEPT !.pc = "exited", !.trace = TRUE, !.exit = 1]
                ELSE IF chosen.how = "none" \/ backend = <<>>
                THEN \* "if not selected_remotes: return", "if not backend: return"
                     /\ jobs' = <<>>
                     /\ parent' = [me EXCEPT !.pc = "returned", !.exit = 0]
                ELSE /\ jobs' = PlanJobs(chosen.items, serve_shared, DEFAULT_PORT)
                     /\ parent' = [me EXCEPT !.pc = "start", !.i = 1]
    /\ program' = "core"
    /\ threads' = <<>>
    /\ UNCHANGED loads
    /\ UNCHANGED notServeVars

\* a program is started on a machine without rclone. core.py: FileNotFoundError
\* in list_rclone_remotes prints "rclone not found", returns [] and serve_remote
\* prints "No rclone remotes found." and returns. codes/serve_remote.py:
\* is_rclone_installed logs one error and exits 1. codes/rclone_serve.py and
\* run_webdav.py: subprocess.run raises FileNotFoundError, which no handler
\* of list_rclone_remotes, get_remote_names or main catches
ToolNotFound ==
    /\ program = "none"
    /\ \E p \in Programs :
         /\ program' = p
         /\ parent' = LET me == [parent EXCEPT !.tool = "missing"]
                      IN  CASE p = "core" ->
                                 [me EXCEPT !.pc = "returned", !.exit = 0, !.said = 2]
                            [] p = "serve_remote" ->
                                 [me EXCEPT !.pc = "exited", !.exit = 1, !.said = 1]
                            [] OTHER ->
                                 [me EXCEPT !.pc = "exited", !.exit = 1, !.trace = TRUE]
    /\ UNCHANGED <<jobs, threads, loads>>
    /\ UNCHANGED notServeVars

\* main() of codes/serve_remote.py and of codes/rclone_serve.py up to the
\* first thread.start(), or up to the direct call of serve_remote()
CodesMain(p, personal_port, shared_port) ==
    /\ program = "none"
    /\ program' = p
    /\ \E remote \in ServeRemotes :
         IF get_remote_type(remote) = "drive"
         THEN /\ jobs' = TwoJobs(remote, personal_port, shared_port)
              /\ threads' = Created(2)
              /\ parent' = ParentStart
              /\ UNCHANGED <<file, config, loads>>
         ELSE \* serve_remote() in the main thread: get_flags loads the
              \* configuration before rclone is run
              \E ld \in {LoadConfigOf(p, file)} :
                 /\ jobs' = <<Job(remote, personal_port, FALSE)>>
                 /\ threads' = <<>>
                 /\ file' = ld.file
                 /\ config' = IF ld.ok THEN Loaded(ld.store) ELSE NoConfig
                 /\ loads' = 1
                 /\ parent' = IF ld.ok THEN ParentCall
                              ELSE ParentExit(FALSE, "Traceback", 1)
    /\ UNCHANGED notCacheVars

\* python serve_remote.py
SrThreads ==
    /\ parent.pc = "idle"
    /\ CodesMain("serve_remote", DEFAULT_PORT, DEFAULT_PORT + 1)

\* python rclone_serve.py
RsThreads ==
    /\ parent.pc = "idle"
    /\ CodesMain("rclone_serve", 8080, 9090)

\* python run_webdav.py: main() up to run(command), or serve_gdrive up to
\* the first start(); get_command adds 1 to the port of the shared remote
serve_gdrive ==
    /\ program = "none"
    /\ program' = "run_webdav"
    /\ \E remote \in ServeRemotes, serveShared \in BOOLEAN, sharedExists \in BOOLEAN :
         IF get_remote_type(remote) = "drive" /\ serveShared
         THEN IF sharedExists
              THEN /\ jobs' = TwoJobs(remote, DEFAULT_PORT, DEFAULT_PORT + 1)
                   /\ threads' = Created(2)
                   /\ parent' = ParentStart
              ELSE \* ValueError: main logs it and exits 1
                   /\ jobs' = <<>>
                   /\ threads' = <<>>
                   /\ parent' = ParentExit(FALSE, "No shared-remote configured", 1)
         ELSE /\ jobs' = <<Job(remote, DEFAULT_PORT, FALSE)>>
              /\ threads' = <<>>
              /\ parent' = ParentCall
    /\ UNCHANGED loads
    /\ UNCHANGED notServeVars

\* thread.start(): core.py constructs each thread in the loop that starts it
ThreadStart ==
    /\ parent.pc = "start"
    /\ threads' = IF program = "core" THEN Append(threads, "running")
                  ELSE [threads EXCEPT ![parent.i] = Entered(program)]
    /\ parent' = IF parent.i = Len(jobs)
                 THEN [parent EXCEPT !.pc = "join", !.i = 1]
                 ELSE [parent EXCEPT !.i = parent.i + 1]
    /\ UNCHANGED <<program, jobs, loads>>
    /\ UNCHANGED notServeVars

\* a worker of a codes/ script enters serve_remote(): get_remote_type, and
\* for a remote that has a type get_flags, whose load_config() tests
\* "_config_cache is not None"
WorkerGetFlags ==
    /\ \E k \in 1..Len(threads), typed \in BOOLEAN :
         /\ threads[k] = "started"
         /\ ~jobs[k].shared => typed
         /\ threads' = [threads EXCEPT ![k] = IF typed /\ ~config.loaded
                                              THEN "loading" ELSE "running"]
    /\ UNCHANGED <<program, jobs, parent, loads>>
    /\ UNCHANGED notServeVars

\* the worker that found no cache runs the rest of load_config(): it creates
\* or reads data/config.json and assigns _config_cache; a JSONDecodeError
\* ends the thread
WorkerLoad ==
    /\ \E k \in 1..Len(threads) :
         /\ threads[k] = "loading"
         /\ \E ld \in {LoadConfigOf(program, file)} :
              /\ file' = ld.file
              /\ config' = IF ld.ok THEN Loaded(ld.store) ELSE config
              /\ threads' = [threads EXCEPT ![k] = IF ld.ok THEN "running"
                                                   ELSE "finished"]
    /\ loads' = loads + 1
    /\ UNCHANGED <<program, jobs, parent>>
    /\ UNCHANGED notCacheVars

\* the rclone serve process of one worker ends and the thread's target returns
\* (or sys.exit(1) of run() ends the thread it was called in)
WorkerExit ==
    /\ \E k \in 1..Len(threads) :
         /\ threads[k] = "running"
         /\ threads' = [threads EXCEPT ![k] = "finished"]
         /\ parent' = IF parent.first = 0 THEN [parent EXCEPT !.first = k] ELSE parent
    /\ UNCHANGED <<program, jobs, loads>>
    /\ UNCHANGED notServeVars

\* thread.join() of the next thread returns
ThreadJoin ==
    /\ parent.pc = "join"
    /\ parent.i <= Len(threads)
    /\ join(threads[parent.i])
    /\ parent' = [parent EXCEPT !.i = parent.i + 1]
    /\ UNCHANGED <<program, jobs, threads, loads>>
    /\ UNCHANGED notServeVars

\* the last join returned: the function returns to its caller
ParentReturn ==
    /\ parent.pc = "join"
    /\ parent.i > Len(threads)
    /\ parent' = [parent EXCEPT !.pc = "returned", !.exit = 0]
    /\ UNCHANGED <<program, jobs, threads, loads>>
    /\ UNCHANGED notServeVars

\* the rclone serve process the main thread runs itself ends: serve_remote()
\* of codes/ logs a failure and returns, run() of run_webdav.py exits 1 on it
CallReturn ==
    /\ parent.pc = "call"
    /\ \E rc \in {0, 1} :
         parent' = IF rc # 0 /\ program = "run_webdav"
                   THEN ParentExit(FALSE, "CalledProcessError", 1)
                   ELSE [parent EXCEPT !.pc = "returned", !.exit = 0]
    /\ UNCHANGED <<program, jobs, threads, loads>>
    /\ UNCHANGED notServeVars

\* Ctrl+C while the main thread starts or joins workers or waits for rclone
KeyboardInterrupt ==
    /\ parent.pc \in {"start", "join", "call"}
    /\ parent' = ParentExit(TRUE, InterruptNotice(program), InterruptExit(program))
    /\ \E group \in BOOLEAN :
         threads' = [k \in 1..Len(threads) |-> AfterInterrupt(program, threads[k], group)]
    /\ UNCHANGED <<program, jobs, loads>>
    /\ UNCHANGED notServeVars

\* Ctrl+C at the first prompt of a program: input() of choose_from_list
\* raises up to the top level; in run_webdav.py get_valid_index catches it,
\* logs and calls sys.exit(0)
PromptInterrupt ==
    /\ program = "none"
    /\ \E p \in Programs :
         /\ program' = p
         /\ parent' = IF p = "run_webdav"
                      THEN ParentExit(TRUE, "Operation cancelled by user.", 0)
                      ELSE ParentExit(TRUE, InterruptNotice(p), InterruptExit(p))
    /\ UNCHANGED <<jobs, threads, loads>>
    /\ UNCHANGED notServeVars

\* the process is gone, the next one can be run
ServeClose ==
    /\ parent.pc \in {"returned", "exited"}
    \* the interpreter waits for the threads that are not daemons
    /\ Daemon(program) \/ \A k \in 1..Len(threads) : threads[k] \in {"created", "finished"}
    /\ program' = "none"
    /\ jobs' = <<>>
    /\ threads' = <<>>
    /\ parent' = ParentIdle
    \* _config_cache dies with the process, data/config.json stays
    /\ config' = NoConfig
    /\ loads' = 0
    /\ UNCHANGED file
    /\ UNCHANGED notCacheVars

(***************************************************************************)
(* rclone/main.py: the menu of the rclone/ scripts, with run_backup.main   *)
(* and run_webdav.main as the workflows it runs in its own process.        *)
(***************************************************************************)
\* no process
MenuOff == [pc |-> "off", exit |-> -1, said |-> ""]

\* the menu is shown and get_valid_index(ACTIONS) waits for input
MenuPrompt == [pc |-> "prompt", exit |-> -1, said |-> ""]

\* sys.exit(code), or an exception no handler catches
MenuExited(code) == [pc |-> "exited", exit |-> code, said |-> ""]

\* no workflow ran yet
NoWork ==
    [name |-> "none", step |-> "none", local |-> "", include |-> "unset",
     remote |-> "", path |-> "", failures |-> 0, reports |-> 0, trace |-> FALSE,
     calls |-> <<>>]

\* a workflow that is over: how many rclone calls exited non-zero, how many
\* error messages were logged, and the commands it ran to the end
Work(name, failures, reports, calls) ==
    [NoWork EXCEPT !.name = name, !.step = "over", !.failures = failures,
                   !.reports = reports, !.calls = calls]

\* what the user types at "> "
MenuInputs == {"x", "0", "1", "2", "3", "4", "5"}

\* int(input("> ")): -1 stands for ValueError
MenuInt(text) ==
    CASE text = "0" -> 0 [] text = "1" -> 1 [] text = "2" -> 2 [] text = "3" -> 3
      [] text = "4" -> 4 [] text = "5" -> 5 [] OTHER -> -1

\* get_valid_index(item_list, allow_root) for one input: the number it
\* returns, or -1 with what it prints before it asks again
get_valid_index(n, allow_root, text) ==
    IF MenuInt(text) = -1 THEN [index |-> -1, said |-> "Please enter an integer."]
    ELSE IF (allow_root /\ MenuInt(text) = 0) \/ (1 <= MenuInt(text) /\ MenuInt(text) <= n)
    THEN [index |-> MenuInt(text), said |-> ""]
    ELSE [index |-> -1, said |-> "Please enter a valid number from the list."]

\* ACTIONS of main.py
NumActions == 4

\* the folders of LOCAL_SOURCE, sorted, and whether rglob(".*") finds a hidden
\* item in each
LocalFolders == <<"docs", "pics">>
contains_hidden(folder) == folder = "docs"

\* the folders rclone lsd lists on each remote, sorted
RemoteNames == <<"gdrive", "mega">>
RemoteFolders(remote) == IF remote = "gdrive" THEN <<"backups", "old">> ELSE <<>>

\* the command of execute_backup(local_path, remote_path, include_hidden)
BackupCommand(local_path, remote_path, include_hidden) ==
    <<"rclone", "copy", local_path, remote_path, "--progress">>
    \o (IF include_hidden THEN <<>> ELSE <<"--exclude", "/**/.*">>)

\* python main.py: is_installed("rclone"), then the menu
MenuMain ==
    /\ menu.pc = "off"
    /\ \E installed \in BOOLEAN :
         IF installed
         THEN /\ menu' = MenuPrompt
              /\ work' = NoWork
         ELSE /\ menu' = MenuExited(1)
              /\ work' = Work("start", 0, 1, <<>>)
    /\ UNCHANGED notMenuVars

\* the user picks item text of the main menu; the guard of each menu action
Picks(text) ==
    /\ menu.pc = "prompt"
    /\ get_valid_index(NumActions, FALSE, text).index = MenuInt(text)

\* the numbered list a prompt of get_valid_index offers, by where the process
\* is: the length of the list and allow_root
Offered ==
    CASE menu.pc = "prompt" -> [n |-> NumActions, allow_root |-> FALSE]
      [] work.step = "folder" -> [n |-> Len(LocalFolders), allow_root |-> FALSE]
      [] work.step = "remote" -> [n |-> Len(RemoteNames), allow_root |-> FALSE]
      [] OTHER -> [n |-> Len(RemoteFolders(work.remote)), allow_root |-> TRUE]

\* the process waits in get_valid_index
AtIndexPrompt ==
    \/ menu.pc = "prompt"
    \/ menu.pc = "backup" /\ work.step \in {"folder", "remote"}
    \/ menu.pc = "backup" /\ work.step = "path" /\ RemoteFolders(work.remote) # <<>>

\* input get_valid_index refuses: it prints why and asks again
MenuInvalid ==
    /\ AtIndexPrompt
    /\ \E text \in MenuInputs :
         /\ get_valid_index(Offered.n, Offered.allow_root, text).index = -1
         /\ menu' = [menu EXCEPT !.said =
                        get_valid_index(Offered.n, Offered.allow_root, text).said]
    /\ UNCHANGED work
    /\ UNCHANGED notMenuVars

\* "Run backup": run_backup.main() up to the prompt of choose_folder
MenuBackup ==
    /\ Picks("1")
    /\ menu' = [MenuPrompt EXCEPT !.pc = "backup"]
    /\ work' = [NoWork EXCEPT !.name = "backup", !.step = "folder"]
    /\ UNCHANGED notMenuVars

\* get_local_path: a folder is chosen and "Backup '<folder>'?" is answered; n
\* is sys.exit(0), and SystemExit is caught neither by "except Exception" of
\* run_backup.main nor by the menu loop. Then contains_hidden(local_path):
\* only a folder with hidden items gets the question that assigns
\* include_hidden
BackupLocal ==
    /\ menu.pc = "backup" /\ work.step = "folder"
    /\ \E text \in MenuInputs, confirmed \in BOOLEAN, answer \in {"yes", "no"} :
         LET index == get_valid_index(Len(LocalFolders), FALSE, text).index
         IN  /\ index # -1
             /\ IF ~confirmed
                THEN /\ work' = [work EXCEPT !.step = "over"]
                     /\ menu' = MenuExited(0)
                ELSE /\ work' = [work EXCEPT
                                   !.step = "remote",
                                   !.local = LocalFolders[index],
                                   !.include = IF contains_hidden(LocalFolders[index])
                                               THEN answer ELSE "unset"]
                     /\ menu' = [menu EXCEPT !.said = ""]
    /\ UNCHANGED notMenuVars

\* choose_remote, then get_remote_folders: a failed rclone lsd is logged and
\* the process exits 1
BackupRemote ==
    /\ menu.pc = "backup" /\ work.step = "remote"
    /\ \E text \in MenuInputs, lsd \in {0, 1} :
         LET index == get_valid_index(Len(RemoteNames), FALSE, text).index
         IN  /\ index # -1
             /\ IF lsd # 0
                THEN /\ work' = [work EXCEPT !.step = "over", !.remote = RemoteNames[index],
                                             !.failures = 1, !.reports = 1]
                     /\ menu' = MenuExited(1)
                ELSE /\ work' = [work EXCEPT !.step = "path", !.remote = RemoteNames[index]]
                     /\ menu' = [menu EXCEPT !.said = ""]
    /\ UNCHANGED notMenuVars

\* get_remote_path: a listed folder or 0 for the root; with no folder on the
\* remote a new folder, the root, or neither, which is sys.exit(0)
BackupPath ==
    /\ menu.pc = "backup" /\ work.step = "path"
    /\ LET remote_folders == RemoteFolders(work.remote)
       IN  IF remote_folders = <<>>
           THEN \E answer \in {"new", "root", "neither"} :
                  IF answer = "neither"
                  THEN /\ work' = [work EXCEPT !.step = "over"]
                       /\ menu' = MenuExited(0)
                  ELSE /\ work' = [work EXCEPT
                                     !.step = "copy",
                                     !.path = IF answer = "new"
                                              THEN work.remote \o ":/" \o "new"
                                              ELSE work.remote \o ":/"]
                       /\ menu' = [menu EXCEPT !.said = ""]
           ELSE \E text \in MenuInputs :
                  LET index == get_valid_index(Len(remote_folders), TRUE, text).index
                  IN  /\ index # -1
                      /\ work' = [work EXCEPT
                                    !.step = "copy",
                                    !.path = IF index = 0 THEN work.remote \o ":/"
                                             ELSE work.remote \o ":/"
                                                  \o remote_folders[index]]
                      /\ menu' = [menu EXCEPT !.said = ""]
    /\ UNCHANGED notMenuVars

\* execute_backup(local_path, remote_path, include_hidden): when
\* include_hidden was never assigned the call raises UnboundLocalError, which
\* "except Exception" logs with its traceback before sys.exit(1); a failed
\* rclone copy is logged and is sys.exit(1)
BackupExecute ==
    /\ menu.pc = "backup" /\ work.step = "copy"
    /\ \E rc \in {0, 1} :
         LET copy_command == BackupCommand(work.local, work.path, work.include = "yes")
         IN  IF work.include = "unset"
             THEN /\ work' = [work EXCEPT !.step = "done", !.reports = 1, !.trace = TRUE]
                  /\ menu' = MenuExited(1)
             ELSE /\ work' = [work EXCEPT !.step = "done", !.failures = rc,
                                          !.reports = rc, !.calls = <<copy_command>>]
                  /\ menu' = IF rc # 0 THEN MenuExited(1) ELSE MenuPrompt
    /\ UNCHANGED notMenuVars

\* "Serve webDAV": run_webdav.main(). run() exits the process when rclone
\* fails; in serve_gdrive run() is a thread's target and its sys.exit(1) ends
\* that thread only
MenuServe ==
    /\ Picks("2")
    /\ \E two \in BOOLEAN, authenticate \in BOOLEAN, rc1 \in {0, 1}, rc2 \in {0, 1} :
         LET personal == get_command(SeedStore, "remote:", "mega", FALSE, authenticate)
             drive == get_command(SeedStore, "remote:", "drive", FALSE, authenticate)
             shared == get_command(SeedStore, "remote-shared:", "drive", TRUE,
                                   authenticate)
         IN  IF two
             THEN /\ work' = Work("webdav", rc1 + rc2, rc1 + rc2, <<drive, shared>>)
                  /\ menu' = MenuPrompt
             ELSE /\ work' = Work("webdav", rc1, rc1, <<personal>>)
                  /\ menu' = IF rc1 # 0 THEN MenuExited(1) ELSE MenuPrompt
    /\ UNCHANGED notMenuVars

\* "Manage webDAV configurations": manage_configurations() has a menu of its
\* own; it comes back on "Back to Main Menu", and a failed load or save in it
\* is logged and exits the process
MenuManage ==
    /\ Picks("3")
    /\ \E back \in BOOLEAN :
         /\ work' = Work("manage", 0, IF back THEN 0 ELSE 1, <<>>)
         /\ menu' = IF back THEN MenuPrompt ELSE MenuExited(1)
    /\ UNCHANGED notMenuVars

\* "Exit": "Program closed." and sys.exit(0)
MenuExit ==
    /\ Picks("4")
    /\ work' = Work("exit", 0, 0, <<>>)
    /\ menu' = MenuExited(0)
    /\ UNCHANGED notMenuVars

\* the process is gone
MenuClose ==
    /\ menu.pc = "exited"
    /\ menu' = MenuOff
    /\ work' = NoWork
    /\ UNCHANGED notMenuVars

(***************************************************************************)
(* The JSON flag store as a whole.                                         *)
(***************************************************************************)
StoreInit ==
    /\ family \in {"codes", "rclone"}
    /\ file \in (IF family = "codes" THEN {NoFile}
                 ELSE {NoFile, Doc(DumpRclone(SeedStore))})
    /\ config = NoConfig
    /\ script = "none"
    /\ status = "idle"
    /\ msg = ""
    /\ command = NoCommand
    /\ last = NoOp

StoreIdle ==
    /\ family = "codes"
    /\ file = NoFile
    /\ config = NoConfig
    /\ script = "none"
    /\ status = "idle"
    /\ msg = ""
    /\ command = NoCommand
    /\ last = NoOp

\* no config.ini yet, no process
IniIdle ==
    /\ iniFile = [exists |-> FALSE, lines |-> <<>>]
    /\ iniConfig = <<>>
    /\ environ = <<>>
    /\ iniStatus = "idle"
    /\ iniCommand = <<>>
    /\ iniLast = IniNoOp

\* no serve program runs
ServeIdle ==
    /\ program = "none"
    /\ jobs = <<>>
    /\ threads = <<>>
    /\ parent = ParentIdle
    /\ loads = 0

\* main.py does not run
MenuIdle == menu = MenuOff /\ work = NoWork

\* no command runs
CopyIdle == flow = NoFlow /\ runs = <<>>

\* no navigator is open
NavIdle ==
    /\ navKind = "local"
    /\ cursor = <<>>
    /\ navState = "Idle"
    /\ selection = <<>>
    /\ navMsg = ""
    /\ navLast = NavNone

Init == StoreInit /\ IniIdle /\ NavIdle /\ CopyIdle /\ ServeIdle /\ MenuIdle

Next ==
    \/ McMain
    \/ add_remote_type
    \/ delete_remote_type
    \/ add_flag
    \/ edit_flag
    \/ delete_flag
    \/ McExit
    \/ SrMain
    \/ RwMain
    \/ manage_configurations
    \/ display_configuration
    \/ add_configuration
    \/ edit_configuration
    \/ delete_configuration
    \/ MwBack

Spec == Init /\ [][Next]_vars

InitIni == StoreIdle /\ IniIdle /\ NavIdle /\ CopyIdle /\ ServeIdle /\ MenuIdle

NextIni ==
    \/ IniStart
    \/ serve_remote_thread
    \/ manage_config
    \/ IniView
    \/ IniAddEdit
    \/ IniDelete
    \/ IniExit

SpecIni == InitIni /\ [][NextIni]_vars

NextNav ==
    \/ NavOpen
    \/ navigate_local_file_system
    \/ navigate_remote_file_system
    \/ NavClose

SpecNav == InitIni /\ [][NextNav]_vars

NextCopy ==
    \/ upload_backup
    \/ UploadDestination
    \/ UploadCopy
    \/ download_backup
    \/ DownloadDestination
    \/ DownloadCopy
    \/ sync_remotes
    \/ SyncRun
    \/ SyncDestination
    \/ navigate_local_file_system
    \/ navigate_remote_file_system

SpecCopy == InitIni /\ [][NextCopy]_vars

NextServe ==
    \/ serve_remote
    \/ SrThreads
    \/ RsThreads
    \/ serve_gdrive
    \/ ThreadStart
    \/ WorkerGetFlags
    \/ WorkerLoad
    \/ WorkerExit
    \/ ThreadJoin
    \/ ParentReturn
    \/ CallReturn
    \/ KeyboardInterrupt
    \/ PromptInterrupt
    \/ ToolNotFound
    \/ ServeClose

SpecServe == InitIni /\ [][NextServe]_vars

NextMenu ==
    \/ MenuMain
    \/ MenuInvalid
    \/ MenuBackup
    \/ BackupLocal
    \/ BackupRemote
    \/ BackupPath
    \/ BackupExecute
    \/ MenuServe
    \/ MenuManage
    \/ MenuExit
    \/ MenuClose

SpecMenu == InitIni /\ [][NextMenu]_vars

(***************************************************************************)
(* Claims about the JSON flag store, checked under Spec.                   *)
(***************************************************************************)
Width(pair) == IF pair[2] = "" THEN 1 ELSE 2

\* the number of arguments the first i stored flags take
Start(fs, i) == IF i = 0 THEN 0
                ELSE IF i = 1 THEN Width(fs[1])
                ELSE IF i = 2 THEN Width(fs[1]) + Width(fs[2])
                ELSE IF i = 3 THEN Width(fs[1]) + Width(fs[2]) + Width(fs[3])
                ELSE Width(fs[1]) + Width(fs[2]) + Width(fs[3]) + Width(fs[4])

\* out is the stored FlagSet fs, flattened: the i-th stored flag sits after
\* the arguments of the flags before it, its value follows it when it is not
\* empty, and out holds nothing else
Resolves(out, fs) ==
    /\ Len(fs) <= 4
    /\ Len(out) = Start(fs, Len(fs))
    /\ \A i \in 1..Len(fs) :
        /\ out[Start(fs, i - 1) + 1] = fs[i][1]
        /\ fs[i][2] # "" => out[Start(fs, i - 1) + 2] = fs[i][2]

\* part is a run of consecutive arguments of argv
Contains(argv, part) ==
    \E k \in 0..(Len(argv) - Len(part)) : SubSeq(argv, k + 1, k + Len(part)) = part

\* C2: for a shared drive instance and for every other remote type the store
\* has flags for, the resolved flags are exactly the stored FlagSet in stored
\* order, each flag followed by its value when that is not empty, and they
\* are in the command as resolved
C2_ResolveIsStoredFlagSet ==
    \A k \in 1..Len(command) :
        (/\ command[k].rt # "drive" \/ command[k].shared
         /\ config.loaded
         /\ Has(config.flags, command[k].rt))
        => /\ Resolves(command[k].flags, Get(config.flags, command[k].rt))
           /\ Contains(command[k].argv, command[k].flags)

\* a shared drive instance resolved two stored flags, one with a value and
\* one without: three arguments
C2_Witness ==
    \E k \in 1..Len(command) :
        /\ command[k].rt = "drive" /\ command[k].shared
        /\ config.loaded /\ Has(config.flags, "drive")
        /\ Len(Get(config.flags, "drive")) = 2
        /\ Len(command[k].flags) = 3

AllEmpty(st) == \A i \in 1..Len(st) : st[i][2] = <<>>

\* C6: a load that finds no document does not fail: the store is the default
\* (every remote type with an empty FlagSet) and the document now holds it
C6_LoadAbsentGivesDefault ==
    last.load = "absent"
    => /\ status \notin {"exit1", "crashed"}
       /\ config.loaded /\ AllEmpty(config.flags)
       /\ file.exists
       /\ JsonLoad(family, file.toks) = [ok |-> TRUE, val |-> config.flags,
                                         next |-> Len(file.toks) + 1]

\* C7: a load that finds a malformed document reports it and goes on with
\* the defaults: the process neither crashes nor exits
C7_LoadCorruptFallsBack ==
    last.load = "corrupt"
    => /\ status \notin {"exit1", "crashed"}
       /\ msg # ""
       /\ config.loaded /\ AllEmpty(config.flags)

\* C8: a save whose write fails is reported, the menu goes on and the store
\* in memory still holds the change
C8_FailedSaveKeepsSession ==
    last.io \in {"open_fails", "write_fails"}
    => /\ status = "running"
       /\ msg # ""
       /\ config.loaded

\* C9: after a save, loading the document gives the saved store, key order
\* included, and nothing else; after a load, saving the loaded store would
\* write the document that is there
C9_RoundTrip ==
    /\ last.io = "ok"
       => /\ file.exists
          /\ JsonLoad(family, file.toks).ok
          /\ JsonLoad(family, file.toks).val = config.flags
    /\ (last.io = "none" /\ last.load \in {"ok", "absent"} /\ config.loaded)
       => /\ file.exists
          /\ Dump(family, config.flags) = file.toks

\* a save wrote a store with two flags on one remote type
C9_Witness ==
    /\ last.io = "ok"
    /\ \E i \in 1..Len(config.flags) : Len(config.flags[i][2]) = 2


(***************************************************************************)
(* Claims about the config.ini flag store, checked under SpecIni.          *)
(***************************************************************************)
KeyOf(line) == BeforeFirst(line, EQ)

KeysOfLines(lines) == [i \in 1..Len(lines) |-> KeyOf(lines[i])]

\* the flags the store holds now for the remote type of the last operation
AfterLines ==
    IF Has(iniConfig, iniLast.rt) THEN SplitLines(Get(iniConfig, iniLast.rt)) ELSE <<>>

StoredKey(lines, key) == \E i \in 1..Len(lines) : KeyOf(lines[i]) = key

\* C1: the command of a drive instance that is not shared has no flag of
\* the store
C1_DriveNotSharedHasNoFlags ==
    (iniLast.op = "serve" /\ iniCommand.rt = "drive" /\ ~iniCommand.shared)
    => /\ iniCommand.flags = <<>>
       /\ Len(iniCommand.argv) = 10

BadChoice(choice, n) ==
    /\ choice \notin {<<"..">>, <<".">>, <<"d">>, <<"D">>}
    /\ \E k \in 1..Len(choice) :
        ~IsInt(choice[k]) \/ IntOf(choice[k]) < 1 \/ IntOf(choice[k]) > n

\* C10: a choice that is an entry number outside 1..n, n the number of
\* entries listed, or that cannot be read, leaves the cursor where it was,
\* selects nothing and the navigator asks again
C10_BadChoiceReprompts ==
    (navLast.op = "choice" /\ BadChoice(navLast.choice, Len(navLast.entries)))
    => /\ cursor = navLast.cursor
       /\ selection = <<>>
       /\ navState = "Browsing"

\* where a navigator starts: the home directory, or "remote:"
Root == IF navKind = "local" THEN HOME ELSE RemoteRoot

\* C11: ".." typed while the cursor is the root leaves the cursor at the
\* root
C11_AscendAtRootIsNoOp ==
    (navLast.op = "choice" /\ navLast.choice = <<"..">> /\ navLast.cursor = Root)
    => cursor = Root /\ navState = "Browsing"

\* the last choice was one number and named a file of the listing
ChoseFile ==
    /\ navLast.op = "choice"
    /\ Len(navLast.choice) = 1
    /\ IsInt(navLast.choice[1])
    /\ IntOf(navLast.choice[1]) \in 1..Len(navLast.entries)
    /\ LET entry == navLast.entries[IntOf(navLast.choice[1])]
       IN IF navKind = "local" THEN isfile(Append(navLast.cursor, entry))
          ELSE entry[Len(entry)] # SLASH

\* C12: ".." typed in the turn after the cursor went from c into a listed
\* directory brings the cursor back to c, and a number naming a file at c
\* returns the path of that file under c
C12_DescendThenAscend ==
    /\ (navLast.op = "choice" /\ navLast.choice = <<"..">> /\ navLast.afterDescent)
       => cursor = navLast.from /\ navState = "Browsing"
    /\ ChoseFile
       => /\ navState = "Done"
          /\ selection = <<IF navKind = "local"
                           THEN Append(navLast.cursor,
                                       navLast.entries[IntOf(navLast.choice[1])])
                           ELSE navLast.cursor
                                \o navLast.entries[IntOf(navLast.choice[1])]>>

\* C13: when the listing of the cursor fails, the failure is reported, the
\* cursor stays where it was, nothing is returned and the navigator goes on
C13_ListerFailureKeepsCursor ==
    navLast.op \in {"listdir", "lsf"}
    => /\ navState = "Browsing"
       /\ navMsg \notin {"", "Traceback"}
       /\ cursor = navLast.cursor
       /\ selection = <<>>

\* C19: in every Browsing state the cursor is the root extended by the names
\* of the directories descended into: it never leaves the subtree of the root.
C19_CursorUnderRoot ==
    navState = "Browsing" => StartsWith(cursor, Root)

(***************************************************************************)
(* Claims about upload, download and sync, checked under SpecCopy.         *)
(***************************************************************************)
\* the destination navigator of the command returned more than one path
ListAsDestination ==
    /\ flow.step \in {"done", "returned", "crashed"}
    /\ navLast.op = "close"
    /\ Len(selection) > 1

\* C14: a choice of several entries at the destination prompt is refused or
\* reduced to one path: the command does not end by an exception because of
\* it, and no rclone command is built with a list as its destination
C14_DestinationIsOnePath ==
    ListAsDestination
    => /\ flow.step # "crashed"
       /\ \A k \in 1..Len(runs) :
            \A a \in 1..Len(runs[k].argv) : runs[k].argv[a][1] # "list"


(***************************************************************************)
(* Claims about the serve sessions, checked under SpecServe.               *)
(***************************************************************************)
\* the job of the personal instance that job k belongs to
PersonalOf(k) == IF jobs[k].shared THEN k - 1 ELSE k

\* C15: ports are allocated from a base: a remote's personal instance gets
\* the base, its shared companion the base plus one, the next remote's base
\* is the base plus two after a companion and plus one otherwise, and the
\* ports of one session are pairwise distinct.
C15_PortAllocation ==
    \A k \in 1..Len(jobs) :
        /\ jobs[k].shared
           => /\ k > 1
              /\ ~jobs[k - 1].shared
              /\ jobs[k].port = jobs[k - 1].port + 1
        /\ (~jobs[k].shared /\ k > 1)
           => jobs[k].port = jobs[PersonalOf(k - 1)].port
                             + (IF jobs[k - 1].shared THEN 2 ELSE 1)
        /\ \A j \in 1..Len(jobs) : j # k => jobs[j].port # jobs[k].port


\* C18: when Ctrl+C reaches the top level of a program, a cancellation notice
\* is printed and the process exits with a status other than zero.
C18_InterruptExitsNonZero ==
    parent.interrupted
    => /\ parent.pc = "exited"
       /\ parent.notice # ""
       /\ parent.exit > 0

\* C20: the parent returns to its caller only after every worker thread it
\* started has finished, whatever the order in which the workers end.
C20_ReturnsAfterAllWorkers ==
    parent.pc = "returned"
    => /\ \A k \in 1..Len(threads) : threads[k] = "finished"
       /\ threads # <<>> => Len(threads) = Len(jobs)

\* the parent returned from a session of several workers in which a worker
\* started later ended first
C20_Witness ==
    /\ parent.pc = "returned"
    /\ Len(threads) >= 2
    /\ parent.first > 1

\* C21: the cache of the flag store is loaded by the foreground thread only:
\* no worker thread runs load_config, and one process runs the body of
\* load_config (the creation of the default document included) at most once.
C21_CacheOnlyForeground ==
    /\ \A k \in 1..Len(threads) : threads[k] # "loading"
    /\ loads <= 1

\* C22: once an interrupt sent while workers run has been handled, no rclone
\* serve process the program started is still running without an owner.
C22_InterruptLeavesNoOrphan ==
    (parent.interrupted /\ parent.pc = "exited")
    => \A k \in 1..Len(threads) : threads[k] # "orphaned"

\* C24: when rclone is missing, the program prints exactly one message and
\* exits the process; no traceback is shown and nothing that needs rclone is
\* run afterwards.
C24_MissingToolIsFatal ==
    parent.tool = "missing"
    => /\ parent.said = 1
       /\ ~parent.trace
       /\ parent.pc = "exited"
       /\ parent.exit > 0
       /\ jobs = <<>>

\* C26: a choice that names nothing the list offers is recoverable: no
\* exception escapes the prompt, the workflow neither ends nor goes on with
\* an item that was not chosen, and nothing is planned.
C26_InvalidChoiceReprompts ==
    parent.typed = "invalid"
    => /\ ~parent.trace
       /\ parent.pc \notin {"exited", "returned"}
       /\ jobs = <<>>

(***************************************************************************)
(* Claims about the form of the serve command, checked under Spec.         *)
(***************************************************************************)
\* the elements of a serve command after "rclone serve <backend> <remote>
\* --addr <host:port>"
AfterAddress(argv) == SubSeq(argv, 7, Len(argv))

\* C16: a serve command is serve, the backend, the remote path, the address
\* flag with host:port, the credential flags when credentials are used, and
\* then the resolved flags, verbatim and in order, as its last elements.
C16_ServeCommandForm ==
    \A k \in 1..Len(command) :
        LET argv == command[k].argv
            rest == AfterAddress(argv)
        IN  /\ Len(argv) >= 6
            /\ argv[2] = "serve"
            /\ argv[5] = "--addr"
            /\ \/ rest = command[k].flags
               \/ /\ Len(rest) >= 4
                  /\ rest[1] = "--user"
                  /\ rest[3] = "--pass"
                  /\ SubSeq(rest, 5, Len(rest)) = command[k].flags


(***************************************************************************)
(* Claims about the copy commands, checked under SpecCopy.                 *)
(***************************************************************************)
\* an argument that names a path: a local one, a remote one or the empty text
IsPathArgument(a) == a = <<>> \/ a[1] \in {SLASH, REMOTE}

\* what the rclone invocations of a command are apart from their paths: per
\* invocation the other arguments in order, and whether names are piped in
Shape(started) ==
    [k \in 1..Len(started) |->
       LET NotPath(a) == ~IsPathArgument(a)
       IN [options |-> SelectSeq(started[k].argv, NotPath),
           piped |-> started[k].stdin # <<>>]]

\* the invocations the command of the other direction builds for a selection
\* of the same items and the same overwrite option
OppositeRuns ==
    IF flow.name = "upload"
    THEN DownloadRuns(flow.first, PathText(HOME), flow.overwrite)
    ELSE UploadRuns(flow.first, RemoteRoot, flow.overwrite)

\* C17: for the same selection shape and the same overwrite option, upload
\* and download start the same number of rclone invocations with the same
\* arguments apart from the source and the destination path.
C17_CopyIsSymmetric ==
    (flow.name \in {"upload", "download"} /\ flow.step = "done")
    => Shape(runs) = Shape(OppositeRuns)


(***************************************************************************)
(* Claims about the menu of rclone/main.py, checked under SpecMenu.        *)
(***************************************************************************)
\* C23: when an rclone call of a workflow exits non-zero, the failure is
\* reported once, the workflow ends, and the menu loop goes on: the process
\* does not exit.
C23_FailedCallKeepsMenu ==
    work.failures > 0
    => /\ work.reports = work.failures
       /\ ~work.trace
       /\ menu.pc # "exited"

\* C30: once the local folder, the remote and the remote folder are chosen,
\* the backup runs its copy command exactly once, whether or not the folder
\* has hidden items, and excludes hidden items when it did not ask about them.
C30_BackupCopiesOnce ==
    (work.name = "backup" /\ work.step = "done")
    => /\ Len(work.calls) = 1
       /\ work.include = "unset"
          => \E a \in 1..Len(work.calls[1]) : work.calls[1][a] = "--exclude"


\* the selected entry text as a name under the cursor at
RelativeTo(at, text) == RStrip(SubSeq(text, Len(at) + 1, Len(text)), SLASH)

\* C28: a download of several items without overwrite runs one rclone copy
\* whose source is the remote navigator's cursor at the selection and whose
\* stdin names the selected entries relative to that cursor.
C28_DownloadBaseIsCursor ==
    (/\ flow.name = "download" /\ flow.step = "done"
     /\ ~flow.overwrite /\ Len(flow.first) > 1)
    => /\ Len(runs) = 1
       /\ runs[1].argv[5] = flow.at
       /\ runs[1].stdin = Join(NL, [k \in 1..Len(flow.first) |->
                                      RelativeTo(flow.at, flow.first[k])])

\* how many arguments of the command are the token --drive-shared-with-me
SharedTokens(argv) == Cardinality({a \in 1..Len(argv) : argv[a] = SHARED_WITH_ME})

\* C29: the command serving a drive remote has no --drive-shared-with-me for
\* the personal instance and exactly one for the shared instance, whatever
\* flags are configured for drive.
C29_SharedFlagOnlyOnShared ==
    (iniLast.op = "serve" /\ iniCommand.rt = "drive")
    => SharedTokens(iniCommand.argv) = (IF iniCommand.shared THEN 1 ELSE 0)

(***************************************************************************)
(* Claims about the flag store during a serve, checked under Spec.         *)
(***************************************************************************)
\* a step that is one whole run of serve_remote.py or run_webdav.py whose
\* rclone ended with a non-zero status
FailedServeStep ==
    /\ script' \in {"serve_remote", "run_webdav"}
    /\ msg' \in {"Error running rclone serve", "CalledProcessError"}

\* the store a load of the document f gives
StoredIn(fam, f) == JsonLoad(fam, f.toks).val

\* C25 (as stated): a serve whose rclone fails leaves the persisted document
\* as it was before the run, and the store in memory holds what that
\* document held.
C25_FailedServeKeepsDocument ==
    [][FailedServeStep
       => /\ file' = file
          /\ config'.loaded => /\ file.exists
                               /\ config'.flags = StoredIn(family, file)]_vars

\* C25 (amended): a serve whose rclone fails leaves a persisted document that
\* existed as it was; one that was absent is at most created with the
\* built-in defaults by the first load; the store in memory holds what the
\* document holds after the run.
C25_FailedServeKeepsStore ==
    [][FailedServeStep
       => /\ file.exists => file' = file
          /\ ~file.exists => file' \in {file, Doc(DumpCodes(DEFAULT_CONFIG))}
          /\ config'.loaded => /\ file'.exists
                               /\ config'.flags = StoredIn(family, file')]_vars

\* a failed serve that had loaded an existing document with flags in it
C25_Witness ==
    /\ script \in {"serve_remote", "run_webdav"}
    /\ msg \in {"Error running rclone serve", "CalledProcessError"}
    /\ last.load = "ok"
    /\ config.loaded
    /\ CountFlags(config.flags) > 0


(***************************************************************************)
(* Claims about the flag menu of config.ini, checked under SpecIni.        *)
(***************************************************************************)
\* the lines stored for the remote type rt, none when it has no option
LinesOf(opts, rt) == IF Has(opts, rt) THEN SplitLines(Get(opts, rt)) ELSE <<>>

====
